---- MODULE Spec2Model ----
(***************************************************************************)
(* Timetable generation engine: validator, lab allocator, scheduler        *)
(* pipeline, workload calculator, and the Generate screen / timetable      *)
(* store that drive it.                                                     *)
(*                                                                         *)
(* Identifiers (uuid strings in the source) are natural numbers; sorting   *)
(* by id.localeCompare is numeric order.  The empty string '' is NoId.     *)
(* Entry ids, createdAt and generatedAt (uuid / clock) are not modelled:   *)
(* entries are told apart by their position in the entry list.            *)
(* Explanation messages are short tags.                                    *)
(***************************************************************************)
EXTENDS Integers, Sequences, FiniteSets, TLC

VARIABLES
    infrastructure,     \* InfrastructureState snapshot
    academic,           \* AcademicState snapshot
    batchId,            \* generateTimetable argument
    existingRotations,  \* generateTimetable argument
    pc,                 \* position of the generateTimetable call
    batch,              \* local: the batch found in step 2
    allEntries,         \* local: accumulated entries
    allRotations,       \* local: accumulated rotations
    explanations,       \* local: accumulated explanations
    result,             \* GenerationResult returned by the call
    returnedAt,         \* pipeline step whose return statement ended the call
    timetables,         \* store: state.timetable.timetables
    labRotations,       \* store: state.timetable.labRotations
    currentGeneration,  \* store: state.timetable.currentGeneration
    addBatchAction,     \* payload of the addBatch action dispatched by the Batches screen
    loopStats           \* history: iterations of the lab loop, attempts of the theory scans

vars == <<infrastructure, academic, batchId, existingRotations, pc, batch,
          allEntries, allRotations, explanations, result, returnedAt,
          timetables, labRotations, currentGeneration, addBatchAction, loopStats>>

inputVars == <<infrastructure, academic, addBatchAction>>
callVars  == <<batchId, existingRotations, pc, batch, allEntries, allRotations,
               explanations, result, returnedAt, loopStats>>
storeVars == <<timetables, labRotations, currentGeneration>>

---------------------------------------------------------------------------
(* Bounds of the model *)
MaxSubBatches == 3
MaxLabs == 2
MaxRotations == 1
MaxLabSubjects == 12
MaxStudents == 70
MaxLabCapacity == 30
MaxRuns == 3
MaxTimetableIds == 4

---------------------------------------------------------------------------
(* Program constants *)
NoId == 0

WORKING_DAYS == <<0, 1, 2, 3, 4, 5>>

LAB_SLOT_A == <<2, 3, 4>>

LAB_SLOT_B == <<5, 6, 7>>

MIN_LAB_SESSIONS_PER_WEEK == 2

\* labSessions is kept in half sessions so that 1.5 stays an integer
FACULTY_WORKLOAD_LIMITS(designation) ==
    CASE designation = "PROFESSOR"           -> [theoryPeriods |-> 5,  labSessionsX2 |-> 2]
      [] designation = "ASSOCIATE_PROFESSOR" -> [theoryPeriods |-> 5,  labSessionsX2 |-> 3]
      [] designation = "ASSISTANT_PROFESSOR" -> [theoryPeriods |-> 10, labSessionsX2 |-> 4]

---------------------------------------------------------------------------
(* Array helpers *)
Max(a, b) == IF a >= b THEN a ELSE b

RECURSIVE SortById(_)
SortById(S) ==
    IF S = {} THEN <<>>
    ELSE LET m == CHOOSE x \in S : \A y \in S : x.id <= y.id
         IN  <<m>> \o SortById(S \ {m})

RECURSIVE Flatten(_)
Flatten(ss) == IF ss = <<>> THEN <<>> ELSE Head(ss) \o Flatten(Tail(ss))

SeqToSet(s) == {s[i] : i \in 1..Len(s)}

Explanation(level, source, step, relatedEntityId, message) ==
    [level |-> level, source |-> source, step |-> step,
     relatedEntityId |-> relatedEntityId, message |-> message]

HasError(expls) == \E i \in 1..Len(expls) : expls[i].level = "ERROR"

---------------------------------------------------------------------------
(* Validator *)
validateInfrastructure(state) ==
    LET classrooms == SortById(state.classrooms)
        labs == SortById(state.labs)
    IN  (IF state.blocks = {}
            THEN <<Explanation("ERROR", "VALIDATOR", 1, NoId, "no blocks")>> ELSE <<>>)
        \o (IF state.departments = {}
            THEN <<Explanation("ERROR", "VALIDATOR", 1, NoId, "no departments")>> ELSE <<>>)
        \o (IF state.classrooms = {}
            THEN <<Explanation("ERROR", "VALIDATOR", 1, NoId, "no classrooms")>> ELSE <<>>)
        \o Flatten([i \in 1..Len(classrooms) |->
              IF classrooms[i].capacity <= 0
              THEN <<Explanation("ERROR", "VALIDATOR", 1, classrooms[i].id, "classroom capacity")>>
              ELSE <<>>])
        \o (IF state.labs = {}
            THEN <<Explanation("ERROR", "VALIDATOR", 1, NoId, "no labs")>> ELSE <<>>)
        \o Flatten([i \in 1..Len(labs) |->
              IF labs[i].capacity <= 0
              THEN <<Explanation("ERROR", "VALIDATOR", 1, labs[i].id, "lab capacity")>>
              ELSE <<>>])

validateAcademic(acad, infra) ==
    LET batches == SortById(acad.batches)
    IN  (IF acad.batches = {}
            THEN <<Explanation("ERROR", "VALIDATOR", 1, NoId, "no batches")>> ELSE <<>>)
        \o Flatten([i \in 1..Len(batches) |->
              (IF batches[i].totalStudents <= 0
               THEN <<Explanation("ERROR", "VALIDATOR", 1, batches[i].id, "student count")>>
               ELSE <<>>)
              \o (IF ~\E d \in infra.departments : d.id = batches[i].departmentId
                  THEN <<Explanation("ERROR", "VALIDATOR", 1, batches[i].id, "no department")>>
                  ELSE <<>>)])
        \o (IF acad.subjects = {}
            THEN <<Explanation("ERROR", "VALIDATOR", 1, NoId, "no subjects")>> ELSE <<>>)
        \o (IF {s \in acad.subjects : s.type = "LAB"} = {}
            THEN <<Explanation("WARNING", "VALIDATOR", 1, NoId, "no lab subjects")>> ELSE <<>>)
        \o (IF acad.faculty = {}
            THEN <<Explanation("ERROR", "VALIDATOR", 1, NoId, "no faculty")>> ELSE <<>>)

RECURSIVE SumPeriods(_, _)
SumPeriods(ids, subjects) ==
    IF ids = {} THEN 0
    ELSE LET id == CHOOSE x \in ids : TRUE
             found == {s \in subjects : s.id = id}
         IN  (IF found = {} THEN 0 ELSE (CHOOSE s \in found : TRUE).periodsPerWeek)
             + SumPeriods(ids \ {id}, subjects)

validateFacultyWorkload_labsOnly(faculty, subjects) ==
    LET fs == SortById(faculty)
    IN  Flatten([i \in 1..Len(fs) |->
          IF 2 * Cardinality(fs[i].assignedLabSubjects)
                > FACULTY_WORKLOAD_LIMITS(fs[i].designation).labSessionsX2
          THEN <<Explanation("ERROR", "WORKLOAD", 8, fs[i].id, "lab sessions assigned exceed limit")>>
          ELSE <<>>])

validateFacultyWorkload(faculty, subjects) ==
    LET fs == SortById(faculty)
    IN  Flatten([i \in 1..Len(fs) |->
          LET f == fs[i]
              limits == FACULTY_WORKLOAD_LIMITS(f.designation)
              theoryPeriods == SumPeriods(f.assignedTheorySubjects, subjects)
              labSessions == Cardinality(f.assignedLabSubjects)
          IN  (IF theoryPeriods > limits.theoryPeriods
               THEN <<Explanation("ERROR", "WORKLOAD", 8, f.id, "theory periods assigned exceed limit")>>
               ELSE <<>>)
              \o (IF 2 * labSessions > limits.labSessionsX2
                  THEN <<Explanation("ERROR", "WORKLOAD", 8, f.id, "lab sessions assigned exceed limit")>>
                  ELSE <<>>)])

validateSubjectAssignments(subjects, faculty) ==
    LET ss == SortById(subjects)
    IN  Flatten([i \in 1..Len(ss) |->
          LET assigned ==
                IF ss[i].type = "LAB"
                THEN \E f \in faculty : ss[i].id \in f.assignedLabSubjects
                ELSE \E f \in faculty : ss[i].id \in f.assignedTheorySubjects
          IN  IF ~assigned
              THEN <<Explanation("ERROR", "VALIDATOR", 1, ss[i].id, "subject has no faculty")>>
              ELSE <<>>])

validateAll_warningsBlock(infra, acad) ==
    LET expls ==
            validateInfrastructure(infra)
            \o validateAcademic(acad, infra)
            \o (IF acad.subjects # {} /\ acad.faculty # {}
                THEN validateSubjectAssignments(acad.subjects, acad.faculty) ELSE <<>>)
            \o (IF acad.faculty # {} /\ acad.subjects # {}
                THEN validateFacultyWorkload(acad.faculty, acad.subjects) ELSE <<>>)
    IN  [isValid |-> \A i \in 1..Len(expls) : expls[i].level = "INFO",
         explanations |-> expls]

validateAll_workloadFirst(infra, acad) ==
    LET expls ==
            (IF acad.faculty # {} /\ acad.subjects # {}
             THEN validateFacultyWorkload(acad.faculty, acad.subjects) ELSE <<>>)
            \o validateInfrastructure(infra)
            \o validateAcademic(acad, infra)
            \o (IF acad.subjects # {} /\ acad.faculty # {}
                THEN validateSubjectAssignments(acad.subjects, acad.faculty) ELSE <<>>)
    IN  [isValid |-> ~HasError(expls), explanations |-> expls]

validateAll(infra, acad) ==
    LET expls ==
            validateInfrastructure(infra)
            \o validateAcademic(acad, infra)
            \o (IF acad.subjects # {} /\ acad.faculty # {}
                THEN validateSubjectAssignments(acad.subjects, acad.faculty) ELSE <<>>)
            \o (IF acad.faculty # {} /\ acad.subjects # {}
                THEN validateFacultyWorkload(acad.faculty, acad.subjects) ELSE <<>>)
    IN  [isValid |-> ~HasError(expls), explanations |-> expls]

---------------------------------------------------------------------------
(* Timetable entries and availability checks *)
Entry(day, period, subjectId, facultyId, roomId, bId, subBatchId, isLabSession, labSlot) ==
    [day |-> day, period |-> period, subjectId |-> subjectId, facultyId |-> facultyId,
     roomId |-> roomId, batchId |-> bId, subBatchId |-> subBatchId,
     isLabSession |-> isLabSession, labSlot |-> labSlot]

isSlotAvailable_always(entries, bId, day, period) == TRUE

isSlotAvailable(entries, bId, day, period) ==
    ~\E i \in 1..Len(entries) :
        entries[i].batchId = bId /\ entries[i].day = day /\ entries[i].period = period

isFacultyAvailable(entries, facultyId, day, period) ==
    ~\E i \in 1..Len(entries) :
        entries[i].facultyId = facultyId /\ entries[i].day = day /\ entries[i].period = period

isRoomAvailable(entries, roomId, day, period) ==
    ~\E i \in 1..Len(entries) :
        entries[i].roomId = roomId /\ entries[i].day = day /\ entries[i].period = period

isFacultyAvailableForSlot_always(entries, facultyId, day, periods) == TRUE

isFacultyAvailableForSlot(entries, facultyId, day, periods) ==
    ~\E k \in 1..Len(periods) : \E i \in 1..Len(entries) :
        entries[i].facultyId = facultyId /\ entries[i].day = day
        /\ entries[i].period = periods[k]

---------------------------------------------------------------------------
(* Lab allocator *)
LabSlotUsed(existingEntries, bId, day, periods) ==
    \E k \in 1..Len(periods) : \E i \in 1..Len(existingEntries) :
        existingEntries[i].batchId = bId /\ existingEntries[i].day = day
        /\ existingEntries[i].period = periods[k]

getAvailableLabSlots_lastDayFirst(existingEntries, bId) ==
    Flatten([d \in 1..Len(WORKING_DAYS) |->
        LET day == WORKING_DAYS[Len(WORKING_DAYS) + 1 - d]
        IN  (IF ~LabSlotUsed(existingEntries, bId, day, LAB_SLOT_A)
             THEN <<[day |-> day, slot |-> "A", periods |-> LAB_SLOT_A]>> ELSE <<>>)
            \o (IF ~LabSlotUsed(existingEntries, bId, day, LAB_SLOT_B)
                THEN <<[day |-> day, slot |-> "B", periods |-> LAB_SLOT_B]>> ELSE <<>>)])

getAvailableLabSlots(existingEntries, bId) ==
    Flatten([d \in 1..Len(WORKING_DAYS) |->
        LET day == WORKING_DAYS[d]
        IN  (IF ~LabSlotUsed(existingEntries, bId, day, LAB_SLOT_A)
             THEN <<[day |-> day, slot |-> "A", periods |-> LAB_SLOT_A]>> ELSE <<>>)
            \o (IF ~LabSlotUsed(existingEntries, bId, day, LAB_SLOT_B)
                THEN <<[day |-> day, slot |-> "B", periods |-> LAB_SLOT_B]>> ELSE <<>>)])

\* deptLabs.findIndex(l => l.id === labId), 0-based, -1 when absent
LabFindIndex(deptLabs, labId) ==
    LET idx == {i \in 1..Len(deptLabs) : deptLabs[i].id = labId}
    IN  IF idx = {} THEN -1 ELSE (CHOOSE i \in idx : \A j \in idx : i <= j) - 1

\* existingRotations.find(r => r.batchId === batch.id && r.subBatchId === subBatch.id)
\* as the index of the first match, 0 when there is none
PreviousRotationIndex(rotations, bId, subBatchId) ==
    LET idx == {i \in 1..Len(rotations) :
                  rotations[i].batchId = bId /\ rotations[i].subBatchId = subBatchId}
    IN  IF idx = {} THEN 0 ELSE CHOOSE i \in idx : \A j \in idx : i <= j

\* lab rotation choice of the sub-batch branch, 0-based index into deptLabs
RotationLabIndex(c, subBatch, subBatchIndex) ==
    LET p == PreviousRotationIndex(c.existingRotations, c.batch.id, subBatch.id)
    IN  IF p # 0
        THEN (LabFindIndex(c.deptLabs, c.existingRotations[p].labId) + 1) % Len(c.deptLabs)
        ELSE subBatchIndex % Len(c.deptLabs)

\* candidate faculty if free at the slot, else the first free one, else NoId
SubBatchFaculty(labFaculty, entriesForCheck, slot, subBatchIndex) ==
    LET candidateFaculty == labFaculty[(subBatchIndex % Len(labFaculty)) + 1]
        free == {i \in 1..Len(labFaculty) :
                   isFacultyAvailableForSlot(entriesForCheck, labFaculty[i].id,
                                             slot.day, slot.periods)}
    IN  IF isFacultyAvailableForSlot(entriesForCheck, candidateFaculty.id, slot.day, slot.periods)
        THEN candidateFaculty.id
        ELSE IF free = {} THEN NoId
        ELSE labFaculty[CHOOSE i \in free : \A j \in free : i <= j].id

LabSessionEntries_short(slot, subjectId, facultyId, labId, bId, subBatchId) ==
    [k \in 1..(Len(slot.periods) - 1) |->
        Entry(slot.day, slot.periods[k], subjectId, facultyId, labId, bId,
              subBatchId, TRUE, slot.slot)]

LabSessionEntries(slot, subjectId, facultyId, labId, bId, subBatchId) ==
    [k \in 1..Len(slot.periods) |->
        Entry(slot.day, slot.periods[k], subjectId, facultyId, labId, bId,
              subBatchId, TRUE, slot.slot)]

\* body of sortedSubBatches.forEach for one sub-batch
AllocateSubBatch(st, c, subject, labFaculty, slot, subBatch, subBatchIndex) ==
    LET lab == c.deptLabs[RotationLabIndex(c, subBatch, subBatchIndex) + 1]
        assignedFaculty ==
            SubBatchFaculty(labFaculty, c.existingEntries \o st.entries, slot, subBatchIndex)
    IN  IF assignedFaculty = NoId
        THEN [st EXCEPT !.explanations = @ \o
                <<Explanation("WARNING", "LAB_ALLOCATOR", 3, subject.id,
                              "no available faculty for sub-batch")>>]
        ELSE [st EXCEPT
                !.entries = @ \o LabSessionEntries(slot, subject.id, assignedFaculty,
                                                   lab.id, c.batch.id, subBatch.id),
                !.rotations = @ \o <<[batchId |-> c.batch.id, subBatchId |-> subBatch.id,
                                      sessionNumber |-> st.sessionNumber, labId |-> lab.id]>>,
                !.explanations = @ \o
                    <<Explanation("INFO", "LAB_ALLOCATOR", 3, c.batch.id, "allocated lab")>>]

RECURSIVE AllocateSubBatches(_, _, _, _, _, _, _)
AllocateSubBatches(st, c, subject, labFaculty, slot, sortedSubBatches, subBatchIndex) ==
    IF subBatchIndex >= Len(sortedSubBatches) THEN st
    ELSE AllocateSubBatches(
            AllocateSubBatch(st, c, subject, labFaculty, slot,
                             sortedSubBatches[subBatchIndex + 1], subBatchIndex),
            c, subject, labFaculty, slot, sortedSubBatches, subBatchIndex + 1)

AllocateWholeBatch_firstPeriodOnly(st, c, subject, labFaculty, slot) ==
    [st EXCEPT
        !.entries = @ \o <<Entry(slot.day, slot.periods[1], subject.id, labFaculty[1].id,
                                  c.deptLabs[1].id, c.batch.id, NoId, TRUE, slot.slot)>>,
        !.explanations = @ \o
            <<Explanation("INFO", "LAB_ALLOCATOR", 3, c.batch.id, "allocated lab")>>]

\* single batch (no split): first department lab, first lab faculty
AllocateWholeBatch(st, c, subject, labFaculty, slot) ==
    [st EXCEPT
        !.entries = @ \o LabSessionEntries(slot, subject.id, labFaculty[1].id,
                                           c.deptLabs[1].id, c.batch.id, NoId),
        !.explanations = @ \o
            <<Explanation("INFO", "LAB_ALLOCATOR", 3, c.batch.id, "allocated lab")>>]

\* the while loop of allocateLabsForBatch
RECURSIVE LabLoop(_, _)
LabLoop(st, c) ==
    LET n == Len(c.sortedLabSubjects)
    IN  IF ~(st.subjectIndex < n
             /\ st.sessionNumber < Max(n, MIN_LAB_SESSIONS_PER_WEEK))
        THEN st
        ELSE
        LET availableSlots == getAvailableLabSlots(c.existingEntries \o st.entries, c.batch.id)
            unused == {i \in 1..Len(availableSlots) :
                          <<availableSlots[i].day, availableSlots[i].slot>> \notin st.usedSlots}
        IN  IF unused = {} THEN st
            ELSE
            LET slot == availableSlots[CHOOSE i \in unused : \A j \in unused : i <= j]
                st1 == [st EXCEPT !.usedSlots = @ \cup {<<slot.day, slot.slot>>},
                                 !.iterations = @ + 1]
                subject == c.sortedLabSubjects[(st.subjectIndex % n) + 1]
                labFaculty == SortById({f \in c.faculty : subject.id \in f.assignedLabSubjects})
            IN  IF Len(labFaculty) = 0
                THEN LabLoop([st1 EXCEPT !.explanations = @ \o
                        <<Explanation("ERROR", "LAB_ALLOCATOR", 3, subject.id,
                                      "no faculty assigned to lab subject")>>], c)
                ELSE
                LET st2 == IF Cardinality(c.batch.subBatches) > 1
                           THEN AllocateSubBatches(st1, c, subject, labFaculty, slot,
                                                   SortById(c.batch.subBatches), 0)
                           ELSE AllocateWholeBatch(st1, c, subject, labFaculty, slot)
                    st3 == [st2 EXCEPT !.sessionNumber = @ + 1, !.subjectIndex = @ + 1]
                IN  IF st3.sessionNumber >= MIN_LAB_SESSIONS_PER_WEEK /\ st3.subjectIndex >= n
                    THEN st3
                    ELSE LabLoop(st3, c)

LabAllocationResult(st, success) ==
    [entries |-> st.entries, rotations |-> st.rotations,
     explanations |-> st.explanations, success |-> success,
     iterations |-> st.iterations, usedSlots |-> st.usedSlots]

allocateLabsForBatch_noSubjectCheck(b, labSubjects, labs, faculty, existingEntries, existingRots) ==
    IF {s \in labSubjects : s.departmentId = b.departmentId /\ s.semester = b.semester} = {}
    THEN [entries |-> <<>>, rotations |-> <<>>, explanations |-> <<>>, success |-> TRUE,
          iterations |-> 0, usedSlots |-> {}]
    ELSE [entries |-> <<>>, rotations |-> <<>>,
          explanations |-> <<Explanation("ERROR", "LAB_ALLOCATOR", 3, b.id, "not allocated")>>,
          success |-> FALSE, iterations |-> 0, usedSlots |-> {}]

allocateLabsForBatch(b, labSubjects, labs, faculty, existingEntries, existingRots) ==
    LET sortedLabSubjects ==
            SortById({s \in labSubjects :
                        s.departmentId = b.departmentId /\ s.semester = b.semester})
        deptLabs == SortById({l \in labs : l.departmentId = b.departmentId})
        st0 == [entries |-> <<>>, rotations |-> <<>>, explanations |-> <<>>,
                sessionNumber |-> 0, usedSlots |-> {}, subjectIndex |-> 0, iterations |-> 0]
        fail(tag) == LabAllocationResult(
                        [st0 EXCEPT !.explanations =
                            <<Explanation("ERROR", "LAB_ALLOCATOR", 3, b.id, tag)>>], FALSE)
        c == [batch |-> b, sortedLabSubjects |-> sortedLabSubjects, deptLabs |-> deptLabs,
              faculty |-> faculty, existingEntries |-> existingEntries,
              existingRotations |-> existingRots]
    IN  IF Len(sortedLabSubjects) = 0 THEN fail("no lab subjects found for batch")
        ELSE IF Len(deptLabs) = 0 THEN fail("no labs available in department")
        ELSE IF Len(getAvailableLabSlots(existingEntries, b.id)) < MIN_LAB_SESSIONS_PER_WEEK
        THEN fail("not enough lab slots")
        ELSE
        LET st == LabLoop(st0, c)
        IN  IF st.sessionNumber < MIN_LAB_SESSIONS_PER_WEEK
            THEN LabAllocationResult(
                    [st EXCEPT !.explanations = @ \o
                        <<Explanation("ERROR", "LAB_ALLOCATOR", 3, b.id,
                                      "could not allocate minimum lab sessions")>>], FALSE)
            ELSE LabAllocationResult(st, TRUE)

---------------------------------------------------------------------------
(* Scheduler phases *)
placeTheoryEntry(b, subject, facultyId, classroomId, day, period) ==
    Entry(day, period, subject.id, facultyId, classroomId, b.id, NoId, FALSE, "none")

ScopedSubjects(subjects, b, type) ==
    SortById({s \in subjects : s.type = type /\ s.departmentId = b.departmentId
                               /\ s.semester = b.semester})

\* faculty.filter(assignedTheorySubjects.includes(id)).sort(by id)[0], NoId if undefined
AssignedTheoryFaculty(faculty, subjectId) ==
    LET fs == SortById({f \in faculty : subjectId \in f.assignedTheorySubjects})
    IN  IF Len(fs) = 0 THEN NoId ELSE fs[1].id

\* first classroom of the sorted candidates that is free at the slot, NoId if none
FirstFreeClassroom(candidates, entries, day, period) ==
    LET free == {i \in 1..Len(candidates) :
                    isRoomAvailable(entries, candidates[i].id, day, period)}
    IN  IF free = {} THEN NoId
        ELSE candidates[CHOOSE i \in free : \A j \in free : i <= j].id

MandatoryAllowedDays_shifted == <<1, 2>>

MandatoryAllowedDays == <<0, 1>>

MandatoryPeriod == 3

\* body of mandatorySubjects.forEach; index is 0-based
PlaceMandatory(acc, c, subject, index) ==
    LET warn(level, rel, tag) ==
            [acc EXCEPT !.explanations = @ \o <<Explanation(level, "SCHEDULER", 4, rel, tag)>>]
    IN  IF index >= Len(MandatoryAllowedDays)
        THEN warn("WARNING", subject.id, "no available slots for mandatory")
        ELSE
        LET day == MandatoryAllowedDays[index + 1]
            period == MandatoryPeriod
            combinedEntries == c.existingEntries \o acc.entries
            assignedFaculty == AssignedTheoryFaculty(c.faculty, subject.id)
            classroom == FirstFreeClassroom(
                SortById({r \in c.classrooms : r.departmentId = c.batch.departmentId
                                               /\ r.capacity >= c.batch.totalStudents}),
                combinedEntries, day, period)
        IN  IF ~isSlotAvailable(combinedEntries, c.batch.id, day, period)
            THEN warn("WARNING", subject.id, "mandatory slot occupied")
            ELSE IF assignedFaculty = NoId
            THEN warn("ERROR", subject.id, "no faculty assigned to mandatory")
            ELSE IF ~isFacultyAvailable(combinedEntries, assignedFaculty, day, period)
            THEN warn("WARNING", subject.id, "faculty unavailable for mandatory")
            ELSE IF classroom = NoId
            THEN warn("ERROR", c.batch.id, "no available classroom")
            ELSE [entries |-> acc.entries \o
                    <<placeTheoryEntry(c.batch, subject, assignedFaculty, classroom, day, period)>>,
                  explanations |-> acc.explanations \o
                    <<Explanation("INFO", "SCHEDULER", 4, subject.id, "placed mandatory")>>]

RECURSIVE MandatoryLoop(_, _, _, _)
MandatoryLoop(acc, c, sorted, index) ==
    IF index >= Len(sorted) THEN acc
    ELSE MandatoryLoop(PlaceMandatory(acc, c, sorted[index + 1], index), c, sorted, index + 1)

placeMandatorySubjects(b, subjects, faculty, classrooms, existingEntries) ==
    MandatoryLoop([entries |-> <<>>, explanations |-> <<>>],
                  [batch |-> b, faculty |-> faculty, classrooms |-> classrooms,
                   existingEntries |-> existingEntries],
                  ScopedSubjects(subjects, b, "MANDATORY"), 0)

theoryPeriods_fromFirst == <<1, 2, 4, 5, 6>>

theoryPeriods == <<2, 4, 5, 6, 7>>

\* the while loop of distributeTheorySubjects for one subject
RECURSIVE TheoryScan(_, _, _, _, _, _)
TheoryScan(w, c, subject, facultyId, classroomId, maxAttempts) ==
    IF ~(w.placedCount < subject.periodsPerWeek /\ w.attempts < maxAttempts) THEN w
    ELSE
    LET day == WORKING_DAYS[(w.dayIndex % Len(WORKING_DAYS)) + 1]
        period == theoryPeriods[(w.periodIndex % Len(theoryPeriods)) + 1]
        combinedEntries == c.existingEntries \o w.entries
        ok == /\ isSlotAvailable(combinedEntries, c.batch.id, day, period)
              /\ isFacultyAvailable(combinedEntries, facultyId, day, period)
              /\ isRoomAvailable(combinedEntries, classroomId, day, period)
        w1 == IF ok
              THEN [w EXCEPT !.entries = @ \o
                        <<placeTheoryEntry(c.batch, subject, facultyId, classroomId, day, period)>>,
                     !.placedCount = @ + 1,
                     !.dayIndex = @ + 1]
              ELSE w
        w2 == [w1 EXCEPT !.periodIndex = @ + 1]
        w3 == IF w2.periodIndex % Len(theoryPeriods) = 0
              THEN [w2 EXCEPT !.dayIndex = @ + 1] ELSE w2
    IN  TheoryScan([w3 EXCEPT !.attempts = @ + 1], c, subject, facultyId, classroomId, maxAttempts)

DistributeTheory_tripleBudget(acc, c, subject) ==
    LET assignedFaculty == AssignedTheoryFaculty(c.faculty, subject.id)
        rooms == SortById({r \in c.classrooms : r.departmentId = c.batch.departmentId
                                                /\ r.capacity >= c.batch.totalStudents})
    IN  IF assignedFaculty = NoId
        THEN [acc EXCEPT !.explanations = @ \o
                <<Explanation("ERROR", "SCHEDULER", 5, subject.id, "no faculty assigned to theory")>>]
        ELSE IF Len(rooms) = 0 THEN acc
        ELSE
        LET w == TheoryScan([placedCount |-> 0, attempts |-> 0, periodIndex |-> 0,
                             dayIndex |-> acc.globalDayIndex, entries |-> acc.entries],
                            c, subject, assignedFaculty, rooms[1].id,
                            Len(WORKING_DAYS) * Len(theoryPeriods) * 6)
        IN  [entries |-> w.entries,
             globalDayIndex |-> w.dayIndex,
             attempts |-> acc.attempts \o <<w.attempts>>,
             explanations |-> acc.explanations \o
                (IF w.placedCount < subject.periodsPerWeek
                 THEN <<Explanation("WARNING", "SCHEDULER", 5, subject.id, "under-placed theory")>>
                 ELSE <<Explanation("INFO", "SCHEDULER", 5, subject.id, "placed theory")>>)]

\* body of theorySubjects.forEach
DistributeTheory(acc, c, subject) ==
    LET assignedFaculty == AssignedTheoryFaculty(c.faculty, subject.id)
        rooms == SortById({r \in c.classrooms : r.departmentId = c.batch.departmentId
                                                /\ r.capacity >= c.batch.totalStudents})
    IN  IF assignedFaculty = NoId
        THEN [acc EXCEPT !.explanations = @ \o
                <<Explanation("ERROR", "SCHEDULER", 5, subject.id, "no faculty assigned to theory")>>]
        ELSE IF Len(rooms) = 0 THEN acc
        ELSE
        LET w == TheoryScan([placedCount |-> 0, attempts |-> 0, periodIndex |-> 0,
                             dayIndex |-> acc.globalDayIndex, entries |-> acc.entries],
                            c, subject, assignedFaculty, rooms[1].id,
                            Len(WORKING_DAYS) * Len(theoryPeriods) * 2)
        IN  [entries |-> w.entries,
             globalDayIndex |-> w.dayIndex,
             attempts |-> acc.attempts \o <<w.attempts>>,
             explanations |-> acc.explanations \o
                (IF w.placedCount < subject.periodsPerWeek
                 THEN <<Explanation("WARNING", "SCHEDULER", 5, subject.id, "under-placed theory")>>
                 ELSE <<Explanation("INFO", "SCHEDULER", 5, subject.id, "placed theory")>>)]

RECURSIVE TheoryLoop(_, _, _, _)
TheoryLoop(acc, c, sorted, i) ==
    IF i > Len(sorted) THEN acc
    ELSE TheoryLoop(DistributeTheory(acc, c, sorted[i]), c, sorted, i + 1)

distributeTheorySubjects(b, subjects, faculty, classrooms, existingEntries) ==
    LET r == TheoryLoop([entries |-> <<>>, explanations |-> <<>>, globalDayIndex |-> 0,
                         attempts |-> <<>>],
                        [batch |-> b, faculty |-> faculty, classrooms |-> classrooms,
                         existingEntries |-> existingEntries],
                        ScopedSubjects(subjects, b, "THEORY"), 1)
    IN  [entries |-> r.entries, explanations |-> r.explanations, attempts |-> r.attempts]

ElectiveAllowedDays == <<0, 1, 2>>

ElectivePeriod == 1

\* body of openElectives.forEach; index is 0-based
PlaceElective(acc, c, subject, index) ==
    LET warn(tag) ==
            [acc EXCEPT !.explanations = @ \o
                <<Explanation("WARNING", "SCHEDULER", 6, subject.id, tag)>>]
    IN  IF index >= Len(ElectiveAllowedDays)
        THEN warn("no available slots for open elective")
        ELSE
        LET day == ElectiveAllowedDays[index + 1]
            period == ElectivePeriod
            combinedEntries == c.existingEntries \o acc.entries
            assignedFaculty == AssignedTheoryFaculty(c.faculty, subject.id)
            classroom == FirstFreeClassroom(
                SortById({r \in c.classrooms : r.departmentId = c.batch.departmentId}),
                combinedEntries, day, period)
        IN  IF ~isSlotAvailable(combinedEntries, c.batch.id, day, period)
            THEN warn("open elective slot occupied")
            ELSE IF assignedFaculty = NoId THEN acc
            ELSE IF ~isFacultyAvailable(combinedEntries, assignedFaculty, day, period)
            THEN warn("faculty unavailable for open elective")
            ELSE IF classroom = NoId THEN acc
            ELSE [entries |-> acc.entries \o
                    <<placeTheoryEntry(c.batch, subject, assignedFaculty, classroom, day, period)>>,
                  explanations |-> acc.explanations \o
                    <<Explanation("INFO", "SCHEDULER", 6, subject.id, "placed open elective")>>]

RECURSIVE ElectiveLoop(_, _, _, _)
ElectiveLoop(acc, c, sorted, index) ==
    IF index >= Len(sorted) THEN acc
    ELSE ElectiveLoop(PlaceElective(acc, c, sorted[index + 1], index), c, sorted, index + 1)

placeOpenElectives(b, subjects, faculty, classrooms, existingEntries) ==
    ElectiveLoop([entries |-> <<>>, explanations |-> <<>>],
                 [batch |-> b, faculty |-> faculty, classrooms |-> classrooms,
                  existingEntries |-> existingEntries],
                 ScopedSubjects(subjects, b, "OPEN_ELECTIVE"), 0)

LibraryPeriods == <<1, 2, 4, 5, 6, 7>>

autoFillLibrary(b, subjects, existingEntries) ==
    LET libs == ScopedSubjects(subjects, b, "LIBRARY")
        \* (day, period) pairs in scan order: days ascending, then LibraryPeriods
        scan == Flatten([d \in 1..Len(WORKING_DAYS) |->
                    [k \in 1..Len(LibraryPeriods) |-> <<WORKING_DAYS[d], LibraryPeriods[k]>>]])
        free == {i \in 1..Len(scan) :
                    isSlotAvailable(existingEntries, b.id, scan[i][1], scan[i][2])}
    IN  IF Len(libs) = 0 \/ free = {}
        THEN [entries |-> <<>>, explanations |-> <<>>]
        ELSE LET first == scan[CHOOSE i \in free : \A j \in free : i <= j]
             IN  [entries |-> <<Entry(first[1], first[2], libs[1].id, NoId, NoId, b.id,
                                      NoId, FALSE, "none")>>,
                  explanations |-> <<Explanation("INFO", "SCHEDULER", 7, libs[1].id,
                                                 "auto-filled library")>>]

---------------------------------------------------------------------------
(* Workload calculator *)
calculateWorkload_perEntry(faculty, subjects, entries) ==
    LET fs == SortById(faculty)
    IN  [i \in 1..Len(fs) |->
          LET f == fs[i]
              limits == FACULTY_WORKLOAD_LIMITS(f.designation)
              theoryCount == Cardinality({k \in 1..Len(entries) :
                                  entries[k].facultyId = f.id /\ ~entries[k].isLabSession})
              labSessions == Cardinality({k \in 1..Len(entries) :
                                  entries[k].facultyId = f.id /\ entries[k].isLabSession})
          IN  [facultyId |-> f.id, designation |-> f.designation,
               theoryPeriods |-> theoryCount, theoryLimit |-> limits.theoryPeriods,
               labSessions |-> labSessions, labLimitX2 |-> limits.labSessionsX2,
               isOverloaded |-> theoryCount > limits.theoryPeriods
                                \/ 2 * labSessions > limits.labSessionsX2]]

calculateWorkload(faculty, subjects, entries) ==
    LET fs == SortById(faculty)
    IN  [i \in 1..Len(fs) |->
          LET f == fs[i]
              limits == FACULTY_WORKLOAD_LIMITS(f.designation)
              theoryCount == Cardinality({k \in 1..Len(entries) :
                                  entries[k].facultyId = f.id /\ ~entries[k].isLabSession})
              labSessionKeys == {<<entries[k].day, entries[k].labSlot>> :
                                  k \in {j \in 1..Len(entries) :
                                          entries[j].facultyId = f.id /\ entries[j].isLabSession}}
              labSessions == Cardinality(labSessionKeys)
          IN  [facultyId |-> f.id, designation |-> f.designation,
               theoryPeriods |-> theoryCount, theoryLimit |-> limits.theoryPeriods,
               labSessions |-> labSessions, labLimitX2 |-> limits.labSessionsX2,
               isOverloaded |-> theoryCount > limits.theoryPeriods
                                \/ 2 * labSessions > limits.labSessionsX2]]

validateWorkload(faculty, subjects, entries) ==
    LET stats == calculateWorkload(faculty, subjects, entries)
    IN  Flatten([i \in 1..Len(stats) |->
          (IF stats[i].theoryPeriods > stats[i].theoryLimit
           THEN <<Explanation("ERROR", "WORKLOAD", 8, stats[i].facultyId, "theory periods exceed limit")>>
           ELSE <<>>)
          \o (IF 2 * stats[i].labSessions > stats[i].labLimitX2
              THEN <<Explanation("ERROR", "WORKLOAD", 8, stats[i].facultyId, "lab sessions exceed limit")>>
              ELSE <<>>)
          \o (IF ~stats[i].isOverloaded
              THEN <<Explanation("INFO", "WORKLOAD", 8, stats[i].facultyId, "workload within limits")>>
              ELSE <<>>)])

hasWorkloadViolation_never(faculty, subjects, entries) == FALSE

hasWorkloadViolation(faculty, subjects, entries) ==
    LET stats == calculateWorkload(faculty, subjects, entries)
    IN  \E i \in 1..Len(stats) : stats[i].isOverloaded

---------------------------------------------------------------------------
(* generateTimetable: the ten-step pipeline, one action per step *)
\* no loop has run yet
NoLoops == [labIterations |-> 0, labPairs |-> {}, theoryAttempts |-> <<>>]

NoBatch == [id |-> NoId, departmentId |-> NoId, semester |-> 0, totalStudents |-> 0,
            subBatches |-> {}]

NoTimetable == [batchId |-> NoId, entries |-> <<>>, isValid |-> FALSE]

NoResult == [success |-> FALSE, hasTimetable |-> FALSE, timetable |-> NoTimetable,
             explanations |-> <<>>]

\* { success: false, explanations }
Failure(expls) == [success |-> FALSE, hasTimetable |-> FALSE, timetable |-> NoTimetable,
                   explanations |-> expls]

SortEntries_asPlaced(es) == es

\* allEntries.sort by day, then period (Array.prototype.sort is stable)
RECURSIVE SortEntries(_)
SortEntries(es) ==
    IF es = <<>> THEN <<>>
    ELSE LET i == CHOOSE k \in 1..Len(es) :
                    \A j \in 1..Len(es) :
                        \/ es[k].day < es[j].day
                        \/ (es[k].day = es[j].day /\ es[k].period < es[j].period)
                        \/ (es[k].day = es[j].day /\ es[k].period = es[j].period /\ k <= j)
         IN  <<es[i]>> \o SortEntries(SubSeq(es, 1, i - 1) \o SubSeq(es, i + 1, Len(es)))

Step1Validate ==
    /\ pc = "step1"
    /\ LET validation == validateAll(infrastructure, academic)
       IN  IF ~validation.isValid
           THEN /\ explanations' = validation.explanations
                /\ result' = Failure(validation.explanations)
                /\ returnedAt' = 1
                /\ pc' = "done"
           ELSE /\ explanations' = validation.explanations \o
                      <<Explanation("INFO", "VALIDATOR", 1, NoId, "all inputs validated")>>
                /\ pc' = "step2"
                /\ UNCHANGED <<result, returnedAt>>
    /\ UNCHANGED <<batch, allEntries, allRotations, batchId, existingRotations>>
    /\ UNCHANGED <<inputVars, storeVars, loopStats>>

Step2LockStructure ==
    /\ pc = "step2"
    /\ LET found == {b \in academic.batches : b.id = batchId}
       IN  IF found = {}
           THEN /\ explanations' = explanations \o
                      <<Explanation("ERROR", "SCHEDULER", 2, NoId, "batch not found")>>
                /\ result' = Failure(explanations')
                /\ returnedAt' = 2
                /\ pc' = "done"
                /\ UNCHANGED <<batch, allEntries, allRotations>>
           ELSE /\ batch' = CHOOSE b \in found : TRUE
                /\ explanations' = explanations \o
                      <<Explanation("INFO", "SCHEDULER", 2, NoId, "academic time structure locked")>>
                /\ allEntries' = <<>>
                /\ allRotations' = existingRotations
                /\ pc' = "step3"
                /\ UNCHANGED <<result, returnedAt>>
    /\ UNCHANGED <<batchId, existingRotations, inputVars, storeVars, loopStats>>

Step3AllocateLabs ==
    /\ pc = "step3"
    /\ LET labSubjects == {s \in academic.subjects : s.type = "LAB"}
           deptLabs == {l \in infrastructure.labs : l.departmentId = batch.departmentId}
           labResult == allocateLabsForBatch(batch, labSubjects, deptLabs, academic.faculty,
                                             allEntries, allRotations)
       IN  /\ allEntries' = allEntries \o labResult.entries
           /\ allRotations' = allRotations \o labResult.rotations
           /\ explanations' = explanations \o labResult.explanations
           /\ loopStats' = [loopStats EXCEPT !.labIterations = labResult.iterations,
                                             !.labPairs = labResult.usedSlots]
           /\ IF ~labResult.success
              THEN /\ result' = Failure(explanations')
                   /\ returnedAt' = 3
                   /\ pc' = "done"
              ELSE /\ pc' = "step4"
                   /\ UNCHANGED <<result, returnedAt>>
    /\ UNCHANGED <<batch, batchId, existingRotations, inputVars, storeVars>>

Step4PlaceMandatory_aborting ==
    /\ pc = "step4"
    /\ LET mandatoryResult ==
               placeMandatorySubjects(batch, academic.subjects, academic.faculty,
                                      infrastructure.classrooms, allEntries)
       IN  /\ allEntries' = allEntries \o mandatoryResult.entries
           /\ explanations' = explanations \o mandatoryResult.explanations
           /\ IF HasError(mandatoryResult.explanations)
              THEN /\ result' = Failure(explanations')
                   /\ returnedAt' = 4
                   /\ pc' = "done"
              ELSE /\ pc' = "step5"
                   /\ UNCHANGED <<result, returnedAt>>
    /\ UNCHANGED <<batch, allRotations, batchId, existingRotations>>
    /\ UNCHANGED <<inputVars, storeVars, loopStats>>

Step4PlaceMandatory ==
    /\ pc = "step4"
    /\ LET mandatoryResult ==
               placeMandatorySubjects(batch, academic.subjects, academic.faculty,
                                      infrastructure.classrooms, allEntries)
       IN  /\ allEntries' = allEntries \o mandatoryResult.entries
           /\ explanations' = explanations \o mandatoryResult.explanations
    /\ pc' = "step5"
    /\ UNCHANGED <<batch, allRotations, result, returnedAt, batchId, existingRotations>>
    /\ UNCHANGED <<inputVars, storeVars, loopStats>>

Step5DistributeTheory ==
    /\ pc = "step5"
    /\ LET theoryResult ==
               distributeTheorySubjects(batch, academic.subjects, academic.faculty,
                                        infrastructure.classrooms, allEntries)
       IN  /\ allEntries' = allEntries \o theoryResult.entries
           /\ explanations' = explanations \o theoryResult.explanations
           /\ loopStats' = [loopStats EXCEPT !.theoryAttempts = theoryResult.attempts]
    /\ pc' = "step6"
    /\ UNCHANGED <<batch, allRotations, result, returnedAt, batchId, existingRotations>>
    /\ UNCHANGED <<inputVars, storeVars>>

Step6PlaceOpenElectives ==
    /\ pc = "step6"
    /\ LET electiveResult ==
               placeOpenElectives(batch, academic.subjects, academic.faculty,
                                  infrastructure.classrooms, allEntries)
       IN  /\ allEntries' = allEntries \o electiveResult.entries
           /\ explanations' = explanations \o electiveResult.explanations
    /\ pc' = "step7"
    /\ UNCHANGED <<batch, allRotations, result, returnedAt, batchId, existingRotations>>
    /\ UNCHANGED <<inputVars, storeVars, loopStats>>

Step7AutoFillLibrary ==
    /\ pc = "step7"
    /\ LET libraryResult ==
               autoFillLibrary(batch, academic.subjects, allEntries)
       IN  /\ allEntries' = allEntries \o libraryResult.entries
           /\ explanations' = explanations \o libraryResult.explanations
    /\ pc' = "step8"
    /\ UNCHANGED <<batch, allRotations, result, returnedAt, batchId, existingRotations>>
    /\ UNCHANGED <<inputVars, storeVars, loopStats>>

Step8ValidateWorkload ==
    /\ pc = "step8"
    /\ LET workloadExplanations ==
               validateWorkload(academic.faculty, academic.subjects, allEntries)
       IN  IF hasWorkloadViolation(academic.faculty, academic.subjects, allEntries)
           THEN /\ explanations' = explanations \o workloadExplanations \o
                      <<Explanation("ERROR", "WORKLOAD", 8, NoId, "workload limits exceeded")>>
                /\ result' = Failure(explanations')
                /\ returnedAt' = 8
                /\ pc' = "done"
           ELSE /\ explanations' = explanations \o workloadExplanations
                /\ pc' = "step9"
                /\ UNCHANGED <<result, returnedAt>>
    /\ UNCHANGED <<batch, allEntries, allRotations, batchId, existingRotations>>
    /\ UNCHANGED <<inputVars, storeVars, loopStats>>

Step9FinalValidation ==
    /\ pc = "step9"
    /\ explanations' = explanations \o
          <<Explanation("INFO", "SCHEDULER", 9, NoId, "final validation passed")>>
    /\ pc' = "step10"
    /\ UNCHANGED <<batch, allEntries, allRotations, result, returnedAt, batchId,
                   existingRotations, inputVars, storeVars, loopStats>>

Step10Publish ==
    /\ pc = "step10"
    /\ allEntries' = SortEntries(allEntries)
    /\ explanations' = explanations \o
          <<Explanation("INFO", "SCHEDULER", 10, NoId, "timetable generated")>>
    /\ result' = [success |-> TRUE, hasTimetable |-> TRUE,
                  timetable |-> [batchId |-> batch.id, entries |-> allEntries',
                                 isValid |-> TRUE],
                  explanations |-> explanations']
    /\ returnedAt' = 10
    /\ pc' = "done"
    /\ UNCHANGED <<batch, allRotations, batchId, existingRotations, inputVars, storeVars, loopStats>>

Pipeline ==
    \/ Step1Validate
    \/ Step2LockStructure
    \/ Step3AllocateLabs
    \/ Step4PlaceMandatory
    \/ Step5DistributeTheory
    \/ Step6PlaceOpenElectives
    \/ Step7AutoFillLibrary
    \/ Step8ValidateWorkload
    \/ Step9FinalValidation
    \/ Step10Publish

---------------------------------------------------------------------------
(* Input snapshots *)
Lab(id, departmentId) == [id |-> id, departmentId |-> departmentId, capacity |-> 30]

Classroom(id, capacity) == [id |-> id, departmentId |-> 1, capacity |-> capacity]

Subject(id, type, periodsPerWeek, semester) ==
    [id |-> id, type |-> type, periodsPerWeek |-> periodsPerWeek, departmentId |-> 1,
     semester |-> semester]

Faculty(id, designation, theory, lab) ==
    [id |-> id, designation |-> designation, assignedTheorySubjects |-> theory,
     assignedLabSubjects |-> lab]

\* no lab at all, a lab of another department only, or 1..MaxLabs labs of department 1
LabSets == {{}, {Lab(29, 2)}} \cup {{Lab(20 + k, 1) : k \in 1..n} : n \in 1..MaxLabs}

\* batch 1 is split into n sub-batches, batch 2 (same department and semester) is not
Batches(n) ==
    { [id |-> 1, departmentId |-> 1, semester |-> 1, totalStudents |-> 60,
       subBatches |-> {[id |-> k, studentCount |-> 60 \div n] : k \in 1..n}],
      [id |-> 2, departmentId |-> 1, semester |-> 1, totalStudents |-> 60,
       subBatches |-> {[id |-> 9, studentCount |-> 60]}] }

\* LAB subjects: none, one of another semester only, one scoped, two scoped
LabSubjectSets ==
    { {}, {Subject(8, "LAB", 3, 2)}, {Subject(1, "LAB", 3, 1)},
      {Subject(1, "LAB", 3, 1), Subject(2, "LAB", 3, 1)} }

\* lab faculty: every LAB subject assigned to faculty 1, or to faculty 1 and 2
LabFacultySets(labSubjects) ==
    LET ids == {s.id : s \in labSubjects}
    IN  { {Faculty(1, "ASSISTANT_PROFESSOR", {}, ids)},
          {Faculty(1, "ASSISTANT_PROFESSOR", {}, ids),
           Faculty(2, "ASSISTANT_PROFESSOR", {}, ids)} }

FullCourseLoad ==
    {Subject(3, "MANDATORY", 1, 1), Subject(4, "MANDATORY", 1, 1), Subject(5, "THEORY", 2, 1),
     Subject(6, "OPEN_ELECTIVE", 1, 1), Subject(7, "LIBRARY", 1, 1)}

\* the non-lab side of the snapshot: subjects, their faculty, classrooms
NoCourses == [subjects |-> {}, faculty |-> {}, classrooms |-> {Classroom(11, 60)}]

FullCourses ==
    [subjects |-> FullCourseLoad,
     faculty |-> {Faculty(3, "ASSISTANT_PROFESSOR", {3, 4, 5, 6, 7}, {})},
     classrooms |-> {Classroom(11, 60)}]

\* no classroom holds the 60 students of a batch
SmallClassroom == [FullCourses EXCEPT !.classrooms = {Classroom(11, 30)}]

\* an elective with periodsPerWeek 0 next to a 5-period theory subject of a professor
ElectiveWithoutPeriods ==
    [subjects |-> {Subject(5, "THEORY", 5, 1), Subject(6, "OPEN_ELECTIVE", 0, 1)},
     faculty |-> {Faculty(3, "PROFESSOR", {5, 6}, {})},
     classrooms |-> {Classroom(11, 60)}]

\* a professor assigned 6 theory periods
ProfessorOverAssigned ==
    [subjects |-> {Subject(5, "THEORY", 6, 1)},
     faculty |-> {Faculty(3, "PROFESSOR", {5}, {})},
     classrooms |-> {Classroom(11, 60)}]

TheoryWithoutFaculty ==
    [subjects |-> {Subject(5, "THEORY", 2, 1)}, faculty |-> {},
     classrooms |-> {Classroom(11, 60)}]

TheoryScenarios ==
    {NoCourses, FullCourses, SmallClassroom, ElectiveWithoutPeriods, ProfessorOverAssigned,
     TheoryWithoutFaculty}

Infrastructure(t, labs) ==
    [blocks |-> {[id |-> 1]}, departments |-> {[id |-> 1], [id |-> 2]},
     classrooms |-> t.classrooms, labs |-> labs]

Academic(t, n, labSubjects, labFaculty) ==
    [batches |-> Batches(n), subjects |-> labSubjects \cup t.subjects,
     faculty |-> labFaculty \cup t.faculty]

\* prior rotation records of batch 1 over the labs of the snapshot
RotationRecords(infra, acad) ==
    { [batchId |-> 1, subBatchId |-> sb.id, sessionNumber |-> 0, labId |-> l.id] :
        sb \in UNION {b.subBatches : b \in {x \in acad.batches : x.id = 1}},
        l \in infra.labs }

RECURSIVE SeqsUpTo(_, _)
SeqsUpTo(S, n) ==
    IF n = 0 THEN {<<>>}
    ELSE LET shorter == SeqsUpTo(S, n - 1)
         IN  shorter \cup {Append(q, x) : q \in shorter, x \in S}

NoAction == [batch |-> NoBatch, labCapacity |-> 0]

CallIdle ==
    /\ batch = NoBatch
    /\ allEntries = <<>>
    /\ allRotations = <<>>
    /\ explanations = <<>>
    /\ result = NoResult
    /\ returnedAt = 0
    /\ loopStats = NoLoops

StoreEmpty ==
    /\ timetables = <<>>
    /\ labRotations = <<>>
    /\ currentGeneration = [isGenerating |-> FALSE, hasResult |-> FALSE, result |-> NoResult]

\* one call of generateTimetable on a bounded input
Init ==
    /\ \E t \in TheoryScenarios, labs \in LabSets, n \in 1..MaxSubBatches,
          ls \in LabSubjectSets :
          \E lf \in LabFacultySets(ls) :
             /\ infrastructure = Infrastructure(t, labs)
             /\ academic = Academic(t, n, ls, lf)
    /\ batchId \in {1, 2, 5}
    /\ existingRotations \in SeqsUpTo(RotationRecords(infrastructure, academic), MaxRotations)
    /\ pc = "step1"
    /\ CallIdle
    /\ StoreEmpty
    /\ addBatchAction = NoAction

Next == Pipeline

Spec == Init /\ [][Next]_vars

---------------------------------------------------------------------------
(* Generate screen and timetable store: runs are serialized, each result is *)
(* committed by completeGeneration before the next run can start           *)
startGeneration == [isGenerating |-> TRUE, hasResult |-> FALSE, result |-> NoResult]

\* timetables.sort by batchId after the push
RECURSIVE SortByBatchId(_)
SortByBatchId(S) ==
    IF S = {} THEN <<>>
    ELSE LET m == CHOOSE x \in S : \A y \in S : x.batchId <= y.batchId
         IN  <<m>> \o SortByBatchId(S \ {m})

completeGeneration_ignoringSuccess(tts, payload) ==
    LET kept == SelectSeq(tts, LAMBDA t : t.batchId # payload.timetable.batchId)
    IN  SortByBatchId(SeqToSet(kept) \cup {payload.timetable})

\* the timetables array after the completeGeneration reducer
completeGeneration(tts, payload) ==
    IF payload.success /\ payload.hasTimetable
    THEN LET kept == SelectSeq(tts, LAMBDA t : t.batchId # payload.timetable.batchId)
         IN  SortByBatchId(SeqToSet(kept) \cup {payload.timetable})
    ELSE tts

canGenerate == validateAll(infrastructure, academic).isValid /\ academic.batches # {}

\* handleGenerate up to the call of generateTimetable
HandleGenerate(selectedBatchId) ==
    /\ pc = "idle"
    /\ canGenerate
    /\ selectedBatchId # NoId
    /\ currentGeneration' = startGeneration
    /\ batchId' = selectedBatchId
    /\ existingRotations' = labRotations
    /\ pc' = "step1"
    /\ UNCHANGED <<batch, allEntries, allRotations, explanations, result, returnedAt>>
    /\ UNCHANGED <<inputVars, timetables, labRotations, loopStats>>

\* handleGenerate after generateTimetable returned: dispatch(completeGeneration(genResult))
CompleteGeneration ==
    /\ pc = "done"
    /\ currentGeneration.isGenerating
    /\ currentGeneration' = [isGenerating |-> FALSE, hasResult |-> TRUE, result |-> result]
    /\ timetables' = completeGeneration(timetables, result)
    /\ pc' = "idle"
    /\ batchId' = NoId
    /\ existingRotations' = <<>>
    /\ batch' = NoBatch
    /\ allEntries' = <<>>
    /\ allRotations' = <<>>
    /\ explanations' = <<>>
    /\ result' = NoResult
    /\ returnedAt' = 0
    /\ loopStats' = NoLoops
    /\ UNCHANGED <<inputVars, labRotations>>

\* the deleteSubject reducer of the academic store, between two runs; the
\* subject deleted is one of the LAB subjects
DeleteSubject(subjectId) ==
    /\ pc = "idle"
    /\ \E s \in academic.subjects : s.id = subjectId /\ s.type = "LAB"
    /\ academic' = [academic EXCEPT
          !.faculty = {[f EXCEPT !.assignedTheorySubjects = @ \ {subjectId},
                                 !.assignedLabSubjects = @ \ {subjectId}] : f \in @},
          !.subjects = {s \in @ : s.id # subjectId}]
    /\ UNCHANGED <<infrastructure, addBatchAction, callVars, storeVars>>

HostScenarios == {NoCourses, FullCourses, ElectiveWithoutPeriods}

InitHost ==
    /\ \E t \in HostScenarios, n \in 1..MaxLabs, k \in 1..MaxSubBatches :
          \E lf \in LabFacultySets({Subject(1, "LAB", 3, 1), Subject(2, "LAB", 3, 1)}) :
             /\ infrastructure = Infrastructure(t, {Lab(20 + i, 1) : i \in 1..n})
             /\ academic = Academic(t, k, {Subject(1, "LAB", 3, 1), Subject(2, "LAB", 3, 1)}, lf)
    /\ batchId = NoId
    /\ existingRotations = <<>>
    /\ pc = "idle"
    /\ CallIdle
    /\ StoreEmpty
    /\ addBatchAction = NoAction

NextHost ==
    \/ \E b \in {1, 2, 5} : HandleGenerate(b)
    \/ Pipeline
    \/ CompleteGeneration
    \/ \E subjectId \in {1, 2} : DeleteSubject(subjectId)

SpecHost == InitHost /\ [][NextHost]_vars

---------------------------------------------------------------------------
(* Academic store: adding a batch splits it into sub-batches *)
RECURSIVE SubBatchLoop(_, _, _, _, _)
SubBatchLoop(i, numSubBatches, remainingStudents, labCapacity, subBatches) ==
    IF ~(i < numSubBatches) THEN subBatches
    ELSE LET count == IF labCapacity <= remainingStudents THEN labCapacity
                      ELSE remainingStudents
         IN  SubBatchLoop(i + 1, numSubBatches, remainingStudents - count, labCapacity,
                          Append(subBatches, [id |-> i + 1, studentCount |-> count]))

calculateSubBatches_floor(totalStudents, labCapacity) ==
    IF labCapacity >= totalStudents
    THEN <<[id |-> 1, studentCount |-> totalStudents]>>
    ELSE SubBatchLoop(0, totalStudents \div labCapacity, totalStudents, labCapacity, <<>>)

\* Math.ceil(totalStudents / labCapacity) for positive operands
calculateSubBatches(totalStudents, labCapacity) ==
    IF labCapacity >= totalStudents
    THEN <<[id |-> 1, studentCount |-> totalStudents]>>
    ELSE SubBatchLoop(0, (totalStudents + labCapacity - 1) \div labCapacity,
                      totalStudents, labCapacity, <<>>)

\* the addBatch reducer
AddBatch ==
    /\ pc = "idle"
    /\ addBatchAction # NoAction
    /\ academic.batches = {}
    /\ academic' = [academic EXCEPT !.batches = @ \cup
          {[id |-> 1,
            departmentId |-> addBatchAction.batch.departmentId,
            semester |-> addBatchAction.batch.semester,
            totalStudents |-> addBatchAction.batch.totalStudents,
            subBatches |-> SeqToSet(calculateSubBatches(addBatchAction.batch.totalStudents,
                                                        addBatchAction.labCapacity))]}]
    /\ UNCHANGED <<infrastructure, addBatchAction, callVars, storeVars>>

InitBatches ==
    /\ infrastructure = Infrastructure(NoCourses, {Lab(21, 1)})
    /\ academic = [batches |-> {}, subjects |-> {}, faculty |-> {}]
    /\ \E t \in 1..MaxStudents, c \in 1..MaxLabCapacity :
          addBatchAction = [batch |-> [id |-> NoId, departmentId |-> 1, semester |-> 1,
                                       totalStudents |-> t, subBatches |-> {}],
                            labCapacity |-> c]
    /\ batchId = NoId
    /\ existingRotations = <<>>
    /\ pc = "idle"
    /\ CallIdle
    /\ StoreEmpty

NextBatches == AddBatch

SpecBatches == InitBatches /\ [][NextBatches]_vars

---------------------------------------------------------------------------
(* Lab-heavy snapshots: k LAB subjects of the batch's department and        *)
(* semester, with several ways of assigning lab faculty                    *)
LabCourse(k) == {Subject(100 + i, "LAB", 3, 1) : i \in 1..k}

\* "pairs": one assistant professor per two subjects; "doubled": two of them per
\* two subjects; "single": one professor per subject; "one": a single assistant
\* professor holding every subject
LabStaff(k, scheme) ==
    LET pair(j) == {100 + i : i \in {2 * j - 1, 2 * j} \cap (1..k)}
    IN  CASE scheme = "pairs" ->
               {Faculty(200 + j, "ASSISTANT_PROFESSOR", {}, pair(j)) : j \in 1..((k + 1) \div 2)}
          [] scheme = "doubled" ->
               {Faculty(200 + j, "ASSISTANT_PROFESSOR", {}, pair(j)) : j \in 1..((k + 1) \div 2)}
               \cup {Faculty(300 + j, "ASSISTANT_PROFESSOR", {}, pair(j)) : j \in 1..((k + 1) \div 2)}
          [] scheme = "single" ->
               {Faculty(200 + i, "PROFESSOR", {}, {100 + i}) : i \in 1..k}
          [] scheme = "one" ->
               {Faculty(201, "ASSISTANT_PROFESSOR", {}, {100 + i : i \in 1..k})}

LabSchemes == {"pairs", "doubled", "single", "one"}

\* two theory subjects of 5 and 2 periods, each assigned to two faculty, and three
\* classrooms of which the lowest-id one is too small for a batch
HeavyTheory ==
    [subjects |-> {Subject(5, "THEORY", 5, 1), Subject(9, "THEORY", 2, 1)},
     faculty |-> {Faculty(3, "ASSISTANT_PROFESSOR", {5, 9}, {}),
                  Faculty(4, "ASSISTANT_PROFESSOR", {5, 9}, {})},
     classrooms |-> {Classroom(11, 30), Classroom(12, 60), Classroom(13, 60)}]

LabScenarios == {NoCourses, FullCourses, HeavyTheory}

\* one call of generateTimetable on a lab-heavy snapshot, no prior rotations
InitLabs ==
    /\ \E t \in LabScenarios, k \in 0..MaxLabSubjects, n \in 1..MaxSubBatches,
          m \in 1..MaxLabs, scheme \in LabSchemes :
             /\ infrastructure = Infrastructure(t, {Lab(20 + i, 1) : i \in 1..m})
             /\ academic = Academic(t, n, LabCourse(k), LabStaff(k, scheme))
    /\ batchId \in {1, 2}
    /\ existingRotations = <<>>
    /\ pc = "step1"
    /\ CallIdle
    /\ StoreEmpty
    /\ addBatchAction = NoAction

SpecLabs == InitLabs /\ [][Next]_vars

---------------------------------------------------------------------------
(* Consecutive runs for one split batch with the rotation records kept: the  *)
(* list a run leaves in allRotations (prior records, then its own) is stored *)
(* with setLabRotations and handed to the next run by handleGenerate        *)
setLabRotations(payload) == payload

\* runs whose records are in the list: the first sub-batch of batch 1 gets a
\* record with sessionNumber 0 in every run that places a session
RunsRecorded(rotations) ==
    Cardinality({i \in 1..Len(rotations) :
        rotations[i].batchId = 1 /\ rotations[i].subBatchId = 1
        /\ rotations[i].sessionNumber = 0})

StartRun(selectedBatchId) ==
    /\ RunsRecorded(labRotations) < MaxRuns
    /\ HandleGenerate(selectedBatchId)

\* dispatch(setLabRotations(...)) and dispatch(completeGeneration(genResult))
CompleteGenerationKeepingRotations ==
    /\ pc = "done"
    /\ currentGeneration.isGenerating
    /\ currentGeneration' = [isGenerating |-> FALSE, hasResult |-> TRUE, result |-> result]
    /\ timetables' = completeGeneration(timetables, result)
    /\ labRotations' = IF result.success THEN setLabRotations(allRotations) ELSE labRotations
    /\ pc' = "idle"
    /\ batchId' = NoId
    /\ existingRotations' = <<>>
    /\ batch' = NoBatch
    /\ allEntries' = <<>>
    /\ allRotations' = <<>>
    /\ explanations' = <<>>
    /\ result' = NoResult
    /\ returnedAt' = 0
    /\ loopStats' = NoLoops
    /\ UNCHANGED inputVars

\* batch 1 split into two or more sub-batches, two or more department labs
InitRotation ==
    /\ \E t \in LabScenarios, m \in 2..MaxLabs, k \in 2..MaxSubBatches :
          \E lf \in LabFacultySets({Subject(1, "LAB", 3, 1), Subject(2, "LAB", 3, 1)}) :
             /\ infrastructure = Infrastructure(t, {Lab(20 + i, 1) : i \in 1..m})
             /\ academic = Academic(t, k, {Subject(1, "LAB", 3, 1), Subject(2, "LAB", 3, 1)}, lf)
    /\ batchId = NoId
    /\ existingRotations = <<>>
    /\ pc = "idle"
    /\ CallIdle
    /\ StoreEmpty
    /\ addBatchAction = NoAction

NextRotation ==
    \/ StartRun(1)
    \/ Pipeline
    \/ CompleteGenerationKeepingRotations

SpecRotation == InitRotation /\ [][NextRotation]_vars

---------------------------------------------------------------------------
(* The lab allocator and the workload calculator called on their own, without *)
(* the validator in front: LAB subjects may lack faculty, and any designation *)
(* may hold any number of lab subjects                                       *)
\* k LAB subjects; subject 100 + u has no faculty (u = 0: every subject has);
\* the others are all assigned to each of the first `staff` faculty
AllocatorStaff(k, u, staff, designation) ==
    {Faculty(200 + j, designation, {}, {100 + i : i \in (1..k) \ {u}}) : j \in 1..staff}

Designations == {"PROFESSOR", "ASSOCIATE_PROFESSOR", "ASSISTANT_PROFESSOR"}

\* entries the batch already holds when the allocator is called
PriorEntrySets(b) ==
    { <<>>,
      <<Entry(0, 2, 5, 3, 11, b, NoId, FALSE, "none")>> }

InitAllocator ==
    /\ \E k \in 1..MaxLabSubjects, n \in 1..MaxSubBatches, m \in 1..MaxLabs, staff \in 1..2,
          designation \in Designations :
          \E u \in 0..k :
             /\ infrastructure = Infrastructure(NoCourses, {Lab(20 + i, 1) : i \in 1..m})
             /\ academic = Academic(NoCourses, n, LabCourse(k),
                                    AllocatorStaff(k, u, staff, designation))
    /\ batchId = 1
    /\ batch = CHOOSE b \in academic.batches : b.id = batchId
    /\ allEntries \in PriorEntrySets(batchId)
    /\ existingRotations = <<>>
    /\ allRotations = <<>>
    /\ explanations = <<>>
    /\ result = NoResult
    /\ returnedAt = 0
    /\ loopStats = NoLoops
    /\ pc = "allocate"
    /\ StoreEmpty
    /\ addBatchAction = NoAction

\* allocateLabsForBatch(batch, labSubjects, labs, faculty, existingEntries, existingRotations)
CallAllocateLabs ==
    /\ pc = "allocate"
    /\ LET labResult == allocateLabsForBatch(batch,
                            {s \in academic.subjects : s.type = "LAB"},
                            infrastructure.labs, academic.faculty,
                            allEntries, existingRotations)
       IN  /\ allEntries' = allEntries \o labResult.entries
           /\ allRotations' = labResult.rotations
           /\ explanations' = labResult.explanations
           /\ result' = [NoResult EXCEPT !.success = labResult.success,
                                         !.explanations = labResult.explanations]
           /\ loopStats' = [loopStats EXCEPT !.labIterations = labResult.iterations,
                                             !.labPairs = labResult.usedSlots]
    /\ pc' = "allocated"
    /\ UNCHANGED <<batch, batchId, existingRotations, returnedAt, inputVars, storeVars>>

\* validateWorkload(faculty, subjects, entries) on the allocated entries
CallValidateWorkload ==
    /\ pc = "allocated"
    /\ explanations' = validateWorkload(academic.faculty, academic.subjects, allEntries)
    /\ pc' = "checked"
    /\ UNCHANGED <<batch, batchId, existingRotations, allEntries, allRotations, result,
                   returnedAt, inputVars, storeVars, loopStats>>

NextAllocator == CallAllocateLabs \/ CallValidateWorkload

SpecAllocator == InitAllocator /\ [][NextAllocator]_vars

---------------------------------------------------------------------------
(* The timetable store on its own: any sequence of completeGeneration,       *)
(* setTimetable and deleteTimetable actions                                  *)
\* a stored timetable; id stands for the uuid given at creation
Timetable(id, bId) == [id |-> id, batchId |-> bId, entries |-> <<>>, isValid |-> TRUE]

\* insert t after the elements that do not sort after it
RECURSIVE InsertByBatchId(_, _)
InsertByBatchId(sorted, t) ==
    IF sorted = <<>> THEN <<t>>
    ELSE IF Head(sorted).batchId <= t.batchId
         THEN <<Head(sorted)>> \o InsertByBatchId(Tail(sorted), t)
         ELSE <<t>> \o sorted

\* timetables.sort by batchId on the array itself (Array.prototype.sort is stable)
RECURSIVE StableSortByBatchId(_)
StableSortByBatchId(tts) ==
    IF tts = <<>> THEN <<>>
    ELSE InsertByBatchId(StableSortByBatchId(SubSeq(tts, 1, Len(tts) - 1)), tts[Len(tts)])

setTimetable_alwaysPush(tts, payload) == StableSortByBatchId(Append(tts, payload))

\* the timetables array after the setTimetable reducer
setTimetable(tts, payload) ==
    LET found == {i \in 1..Len(tts) : tts[i].batchId = payload.batchId}
    IN  StableSortByBatchId(
            IF found # {}
            THEN [tts EXCEPT ![CHOOSE i \in found : \A j \in found : i <= j] = payload]
            ELSE Append(tts, payload))

\* the timetables array after the deleteTimetable reducer
deleteTimetable(tts, id) == SelectSeq(tts, LAMBDA t : t.id # id)

StoreBatchIds == {1, 2, 5}

\* a new timetable carries an id no stored timetable has
FreshTimetables ==
    {Timetable(id, b) : id \in (1..MaxTimetableIds) \ {timetables[i].id : i \in 1..Len(timetables)},
                        b \in StoreBatchIds}

\* results of generateTimetable: failed, or successful with a new timetable
GenerationResults ==
    {Failure(<<>>)}
    \cup {[success |-> TRUE, hasTimetable |-> TRUE, timetable |-> t, explanations |-> <<>>] :
            t \in FreshTimetables}
    \cup {[success |-> FALSE, hasTimetable |-> TRUE, timetable |-> t, explanations |-> <<>>] :
            t \in FreshTimetables}

InitStore ==
    /\ infrastructure = Infrastructure(NoCourses, {})
    /\ academic = Academic(NoCourses, 1, {}, {})
    /\ batchId = NoId
    /\ existingRotations = <<>>
    /\ pc = "idle"
    /\ CallIdle
    /\ StoreEmpty
    /\ addBatchAction = NoAction

\* dispatch(setTimetable(payload))
DispatchSetTimetable ==
    /\ \E payload \in FreshTimetables : timetables' = setTimetable(timetables, payload)
    /\ UNCHANGED <<inputVars, callVars, labRotations, currentGeneration>>

\* dispatch(deleteTimetable(id))
DispatchDeleteTimetable ==
    /\ \E id \in 1..MaxTimetableIds : timetables' = deleteTimetable(timetables, id)
    /\ UNCHANGED <<inputVars, callVars, labRotations, currentGeneration>>

\* dispatch(completeGeneration(payload))
DispatchCompleteGeneration ==
    /\ \E payload \in GenerationResults :
          /\ currentGeneration' = [isGenerating |-> FALSE, hasResult |-> TRUE, result |-> payload]
          /\ timetables' = completeGeneration(timetables, payload)
    /\ UNCHANGED <<inputVars, callVars, labRotations>>

NextStore == DispatchSetTimetable \/ DispatchDeleteTimetable \/ DispatchCompleteGeneration

SpecStore == InitStore /\ [][NextStore]_vars

---------------------------------------------------------------------------
(* Properties *)
Returned == pc = "done"

Generated == pc = "done" /\ result.success

TimetableEntries == result.timetable.entries

SubjectTypeOf(id) == (CHOOSE s \in academic.subjects : s.id = id).type

SameSlot(a, b) == a.day = b.day /\ a.period = b.period

\* C1 (as claimed): in a timetable returned with success, no two distinct entries
\* share (batchId, day, period), sub-batch lab sessions included.
C1_NoTwoEntriesShareBatchSlot ==
    Generated =>
        \A i, j \in 1..Len(TimetableEntries) :
            i # j => ~(/\ TimetableEntries[i].batchId = TimetableEntries[j].batchId
                       /\ SameSlot(TimetableEntries[i], TimetableEntries[j]))

\* C1 (amended): in a timetable returned with success, two distinct entries share
\* (batchId, day, period) only when both are lab entries of different sub-batches
\* of the same lab session (same subject and lab slot).
C1_BatchSlotSharedOnlyBySubBatches ==
    Generated =>
        \A i, j \in 1..Len(TimetableEntries) :
            (/\ i # j
             /\ TimetableEntries[i].batchId = TimetableEntries[j].batchId
             /\ SameSlot(TimetableEntries[i], TimetableEntries[j]))
            => /\ TimetableEntries[i].isLabSession
               /\ TimetableEntries[j].isLabSession
               /\ TimetableEntries[i].subBatchId # NoId
               /\ TimetableEntries[j].subBatchId # NoId
               /\ TimetableEntries[i].subBatchId # TimetableEntries[j].subBatchId
               /\ TimetableEntries[i].subjectId = TimetableEntries[j].subjectId
               /\ TimetableEntries[i].labSlot = TimetableEntries[j].labSlot

\* a returned timetable of a split batch holding parallel sub-batch lab entries
\* next to theory entries
C1_Witness ==
    /\ Generated
    /\ \E i, j \in 1..Len(TimetableEntries) :
          /\ i # j
          /\ TimetableEntries[i].isLabSession
          /\ SameSlot(TimetableEntries[i], TimetableEntries[j])
    /\ \E i \in 1..Len(TimetableEntries) : ~TimetableEntries[i].isLabSession

\* C2: in a timetable returned with success, no two distinct entries with a
\* non-empty facultyId share (facultyId, day, period).
C2_NoFacultyDoubleBooked ==
    Generated =>
        \A i, j \in 1..Len(TimetableEntries) :
            (i # j /\ TimetableEntries[i].facultyId # NoId)
            => ~(/\ TimetableEntries[i].facultyId = TimetableEntries[j].facultyId
                 /\ SameSlot(TimetableEntries[i], TimetableEntries[j]))

\* a returned timetable where two sub-batches sit in the same lab session with
\* different faculty, and theory entries with faculty exist as well
C2_Witness ==
    /\ Generated
    /\ \E i, j \in 1..Len(TimetableEntries) :
          /\ TimetableEntries[i].isLabSession /\ TimetableEntries[j].isLabSession
          /\ SameSlot(TimetableEntries[i], TimetableEntries[j])
          /\ TimetableEntries[i].facultyId # TimetableEntries[j].facultyId
    /\ \E i \in 1..Len(TimetableEntries) :
          ~TimetableEntries[i].isLabSession /\ TimetableEntries[i].facultyId # NoId

\* C3: in a timetable returned with success, no two distinct entries with a
\* non-empty roomId share (roomId, day, period); two sub-batches of one lab
\* session never sit in the same lab.
C3_NoRoomDoubleBooked ==
    Generated =>
        \A i, j \in 1..Len(TimetableEntries) :
            (i # j /\ TimetableEntries[i].roomId # NoId)
            => ~(/\ TimetableEntries[i].roomId = TimetableEntries[j].roomId
                 /\ SameSlot(TimetableEntries[i], TimetableEntries[j]))

Conflict(a, b) ==
    /\ SameSlot(a, b)
    /\ \/ (a.facultyId # NoId /\ a.facultyId = b.facultyId)
       \/ (a.roomId # NoId /\ a.roomId = b.roomId)

\* C4: with serialized runs, each committed before the next starts, the stored
\* timetables of two different batches never share (facultyId, day, period) or
\* (roomId, day, period).
C4_NoCrossBatchDoubleBooking ==
    \A x, y \in 1..Len(timetables) :
        timetables[x].batchId # timetables[y].batchId
        => \A i \in 1..Len(timetables[x].entries), j \in 1..Len(timetables[y].entries) :
               ~Conflict(timetables[x].entries[i], timetables[y].entries[j])

LabGroup(e) ==
    {i \in 1..Len(TimetableEntries) :
        /\ TimetableEntries[i].isLabSession
        /\ TimetableEntries[i].subBatchId = e.subBatchId
        /\ TimetableEntries[i].day = e.day
        /\ TimetableEntries[i].labSlot = e.labSlot}

\* C5: in a returned timetable every lab entry belongs to a group (sub-batch or
\* whole batch, day, labSlot) of exactly three entries with periods {2,3,4} for
\* slot A and {5,6,7} for slot B, all with the same subject, faculty and room.
C5_LabEntriesFormTriples ==
    Generated =>
        \A n \in 1..Len(TimetableEntries) :
            TimetableEntries[n].isLabSession =>
                LET e == TimetableEntries[n]
                    g == LabGroup(e)
                IN  /\ e.labSlot \in {"A", "B"}
                    /\ Cardinality(g) = 3
                    /\ {TimetableEntries[i].period : i \in g}
                          = (IF e.labSlot = "A" THEN {2, 3, 4} ELSE {5, 6, 7})
                    /\ \A i \in g :
                          /\ TimetableEntries[i].subjectId = e.subjectId
                          /\ TimetableEntries[i].facultyId = e.facultyId
                          /\ TimetableEntries[i].roomId = e.roomId

\* a returned timetable of a split batch with lab sessions in slot A and slot B
C5_Witness ==
    /\ Generated
    /\ Cardinality(batch.subBatches) > 1
    /\ \E i, j \in 1..Len(TimetableEntries) :
          /\ TimetableEntries[i].isLabSession /\ TimetableEntries[i].labSlot = "A"
          /\ TimetableEntries[j].isLabSession /\ TimetableEntries[j].labSlot = "B"

\* C6: in a returned timetable every MANDATORY entry has period 3 and day in
\* {0,1}, every OPEN_ELECTIVE entry has period 1 and day in {0,1,2}, and there is
\* at most one LIBRARY entry.
C6_ReservedSlots ==
    Generated =>
        /\ \A i \in 1..Len(TimetableEntries) :
              LET e == TimetableEntries[i]
              IN  /\ SubjectTypeOf(e.subjectId) = "MANDATORY"
                        => (e.period = 3 /\ e.day \in {0, 1})
                  /\ SubjectTypeOf(e.subjectId) = "OPEN_ELECTIVE"
                        => (e.period = 1 /\ e.day \in {0, 1, 2})
        /\ Cardinality({i \in 1..Len(TimetableEntries) :
                SubjectTypeOf(TimetableEntries[i].subjectId) = "LIBRARY"}) <= 1

\* a returned timetable holding a mandatory, an open elective and a library entry
C6_Witness ==
    /\ Generated
    /\ \E i, j, k \in 1..Len(TimetableEntries) :
          /\ SubjectTypeOf(TimetableEntries[i].subjectId) = "MANDATORY"
          /\ SubjectTypeOf(TimetableEntries[j].subjectId) = "OPEN_ELECTIVE"
          /\ SubjectTypeOf(TimetableEntries[k].subjectId) = "LIBRARY"

\* C7: for a batch with more than one sub-batch, every lab session of the
\* returned timetable holds three entries for each sub-batch of the batch,
\* whatever the number of faculty assigned to the lab subject.
C7_EverySubBatchInEverySession ==
    (Generated /\ Cardinality(batch.subBatches) > 1) =>
        \A n \in 1..Len(TimetableEntries) :
            TimetableEntries[n].isLabSession =>
                \A sb \in batch.subBatches :
                    Cardinality(LabGroup([TimetableEntries[n] EXCEPT !.subBatchId = sb.id])) = 3

AfterStep7 == pc \in {"step8", "step9", "step10"} \/ (pc = "done" /\ returnedAt \in {8, 10})

\* C8: hasWorkloadViolation is true exactly when some faculty's stats show
\* theoryPeriods > theoryLimit or labSessions > labLimit, and when it is true of
\* the entries accumulated after step 7 the run returns success=false without a
\* timetable.
C8_WorkloadGate ==
    LET stats == calculateWorkload(academic.faculty, academic.subjects, allEntries)
        violation == hasWorkloadViolation(academic.faculty, academic.subjects, allEntries)
    IN  /\ violation <=> \E i \in 1..Len(stats) :
                            \/ stats[i].theoryPeriods > stats[i].theoryLimit
                            \/ 2 * stats[i].labSessions > stats[i].labLimitX2
        /\ (AfterStep7 /\ violation)
              => (pc \in {"step8", "done"}
                  /\ (pc = "done" => (~result.success /\ ~result.hasTimetable
                                      /\ result.timetable = NoTimetable)))

\* a run that was stopped by the workload gate because a faculty is overloaded
C8_Witness ==
    /\ pc = "done"
    /\ returnedAt = 8
    /\ hasWorkloadViolation(academic.faculty, academic.subjects, allEntries)
    /\ ~result.success

\* C9 (as claimed): every run that returns success=false stopped at step 1, 3
\* or 8.
C9_FailureOnlyAtSteps138 ==
    (Returned /\ ~result.success) => returnedAt \in {1, 3, 8}

\* C9 (amended): every run that returns success=false stopped at step 1, at the
\* batch lookup of step 2 (target batch not found), at step 3 or at step 8;
\* steps 4-7 never end the run, whatever they placed or logged.
C9_FailureOnlyAtSteps1238 ==
    /\ (Returned /\ ~result.success) => returnedAt \in {1, 2, 3, 8}
    /\ (Returned /\ result.success) => returnedAt = 10
    /\ pc \in {"step5", "step6", "step7", "step8"} => result = NoResult

\* a run that failed at the batch lookup, after validation passed
C9_Witness ==
    /\ Returned
    /\ ~result.success
    /\ returnedAt = 2
    /\ validateAll(infrastructure, academic).isValid

NoScopedLabSubject ==
    \E b \in academic.batches :
        /\ b.id = batchId
        /\ ~\E s \in academic.subjects :
              s.type = "LAB" /\ s.departmentId = b.departmentId /\ s.semester = b.semester

\* C10: when validation passes and the target batch has no LAB subject of its
\* department and semester, the run returns success=false, no timetable, and an
\* ERROR explanation with source LAB_ALLOCATOR and step 3.
C10_NoScopedLabSubjectFails ==
    (Returned /\ validateAll(infrastructure, academic).isValid /\ NoScopedLabSubject)
    => /\ ~result.success
       /\ ~result.hasTimetable
       /\ \E i \in 1..Len(result.explanations) :
             /\ result.explanations[i].level = "ERROR"
             /\ result.explanations[i].source = "LAB_ALLOCATOR"
             /\ result.explanations[i].step = 3

\* a returned run on valid input whose batch has no scoped LAB subject although
\* a LAB subject of another semester exists
C10_Witness ==
    /\ Returned
    /\ validateAll(infrastructure, academic).isValid
    /\ NoScopedLabSubject
    /\ \E s \in academic.subjects : s.type = "LAB"

\* a PROFESSOR whose assigned theory subjects total 6 periods per week
OverAssignedProfessors ==
    {f \in academic.faculty :
        /\ f.designation = "PROFESSOR"
        /\ SumPeriods(f.assignedTheorySubjects, academic.subjects) = 6}

\* the only ERROR explanations of the validator are WORKLOAD ones
OnlyWorkloadErrors ==
    LET expls == validateAll(infrastructure, academic).explanations
    IN  \A i \in 1..Len(expls) : expls[i].level = "ERROR" => expls[i].source = "WORKLOAD"

\* C11: for a PROFESSOR whose assigned theory subjects total 6 periods per week
\* the run returns success=false with a WORKLOAD ERROR about that professor, and
\* the run is ended by the step-8 workload gate, after steps 3-7 have run.
C11_OverAssignedProfessorAbortsAtStep8 ==
    (Returned /\ OverAssignedProfessors # {} /\ OnlyWorkloadErrors
     /\ \E b \in academic.batches : b.id = batchId
     /\ ~NoScopedLabSubject)
    => /\ ~result.success
       /\ \E i \in 1..Len(result.explanations) :
             /\ result.explanations[i].level = "ERROR"
             /\ result.explanations[i].source = "WORKLOAD"
             /\ \E f \in OverAssignedProfessors :
                   result.explanations[i].relatedEntityId = f.id
       /\ returnedAt = 8

TargetBatches == {b \in academic.batches : b.id = batchId}

ScopedLabSubjects(b) ==
    {s \in academic.subjects :
        s.type = "LAB" /\ s.departmentId = b.departmentId /\ s.semester = b.semester}

\* the lab sessions of an entry list: distinct (day, labSlot) pairs of lab entries
LabSessionsOf(entries) ==
    {<<entries[i].day, entries[i].labSlot>> :
        i \in {j \in 1..Len(entries) : entries[j].isLabSession}}

\* valid input for a batch that is not split, with n (2..12) scoped lab subjects,
\* a department lab and no subject of another type
LabOnlySingleBatch(n) ==
    /\ validateAll(infrastructure, academic).isValid
    /\ \A s \in academic.subjects : s.type = "LAB"
    /\ \E b \in TargetBatches :
          /\ Cardinality(b.subBatches) = 1
          /\ Cardinality(ScopedLabSubjects(b)) = n
          /\ \E l \in infrastructure.labs : l.departmentId = b.departmentId

\* C12: for a batch with a single sub-batch, n scoped lab subjects (2 <= n <= 12)
\* with lab faculty within workload limits, a department lab and no other
\* subjects, the run returns success with isValid and exactly n lab sessions of
\* three entries each (3n lab entries, nothing else).
C12_LabOnlyBatchGetsOneSessionPerSubject ==
    \A n \in 2..12 :
        (Returned /\ LabOnlySingleBatch(n))
        => /\ result.success
           /\ result.timetable.isValid
           /\ Len(TimetableEntries) = 3 * n
           /\ \A i \in 1..Len(TimetableEntries) : TimetableEntries[i].isLabSession
           /\ Cardinality(LabSessionsOf(TimetableEntries)) = n
           /\ {TimetableEntries[i].subjectId : i \in 1..Len(TimetableEntries)}
                 = {s.id : s \in academic.subjects}

\* returned runs of the two-subject case (6 entries) and of the twelve-subject case
C12_Witness ==
    /\ Returned
    /\ LabOnlySingleBatch(2)
    /\ Len(TimetableEntries) = 6

C12_WitnessFullWeek ==
    /\ Returned
    /\ LabOnlySingleBatch(12)
    /\ Len(TimetableEntries) = 36

\* the explanations of the four checks, each run on the whole snapshot
FourChecks ==
    validateInfrastructure(infrastructure)
    \o validateAcademic(academic, infrastructure)
    \o validateSubjectAssignments(academic.subjects, academic.faculty)
    \o validateFacultyWorkload(academic.faculty, academic.subjects)

\* C14: validateAll returns isValid=true exactly when none of the explanations
\* of the infrastructure, academic, subject-assignment and faculty-workload
\* checks has level ERROR; WARNING explanations never make isValid false; the
\* step-1 gate of generateTimetable returns exactly when isValid is false.
C14_ValidIffNoError ==
    LET v == validateAll(infrastructure, academic)
    IN  /\ v.isValid <=> ~HasError(FourChecks)
        /\ v.isValid <=> (\A i \in 1..Len(v.explanations) : v.explanations[i].level # "ERROR")
        /\ pc # "step1" => (returnedAt = 1 <=> ~v.isValid)

\* a run that passed the step-1 gate although the validator logged a WARNING
C14_Witness ==
    /\ pc = "step2"
    /\ validateAll(infrastructure, academic).isValid
    /\ \E i \in 1..Len(explanations) : explanations[i].level = "WARNING"

\* C15: whenever the run returns success=true, the result carries a timetable
\* whose batchId is the target batch, whose isValid is true, and whose entries
\* are ordered by day ascending and, within a day, by period ascending.
C15_TimetableSortedByDayThenPeriod ==
    Generated =>
        /\ result.hasTimetable
        /\ result.timetable.batchId = batchId
        /\ result.timetable.isValid
        /\ \A i, j \in 1..Len(TimetableEntries) :
              i < j => \/ TimetableEntries[i].day < TimetableEntries[j].day
                       \/ /\ TimetableEntries[i].day = TimetableEntries[j].day
                          /\ TimetableEntries[i].period <= TimetableEntries[j].period

\* a returned timetable in which entries placed after the labs (an open elective
\* in period 1, a theory entry) stand before lab entries of a later slot
C15_Witness ==
    /\ Generated
    /\ \E i, j \in 1..Len(TimetableEntries) :
          /\ i < j
          /\ ~TimetableEntries[i].isLabSession
          /\ TimetableEntries[j].isLabSession
    /\ \E i \in 1..Len(TimetableEntries) :
          SubjectTypeOf(TimetableEntries[i].subjectId) = "THEORY"

RECURSIVE SumCounts(_)
SumCounts(subBatches) ==
    IF subBatches = <<>> THEN 0
    ELSE Head(subBatches).studentCount + SumCounts(Tail(subBatches))

\* C16: for totalStudents >= 1 and labCapacity >= 1, the batch added by addBatch
\* holds one sub-batch with all students when labCapacity >= totalStudents, and
\* otherwise ceil(totalStudents / labCapacity) sub-batches whose counts are each
\* between 1 and labCapacity, all equal to labCapacity except possibly the last,
\* and sum to totalStudents.
C16_SubBatchSplit ==
    \A b \in academic.batches :
        addBatchAction # NoAction =>
            LET total == addBatchAction.batch.totalStudents
                cap == addBatchAction.labCapacity
                sbs == SortById(b.subBatches)
                n == Len(sbs)
            IN  IF cap >= total
                THEN n = 1 /\ sbs[1].studentCount = total
                ELSE /\ (n - 1) * cap < total
                     /\ total <= n * cap
                     /\ \A i \in 1..n : sbs[i].studentCount \in 1..cap
                     /\ \A i \in 1..(n - 1) : sbs[i].studentCount = cap
                     /\ SumCounts(sbs) = total

\* a batch of 70 students added with lab capacity 30: sub-batches of 30, 30, 10
C16_Witness ==
    /\ addBatchAction # NoAction
    /\ addBatchAction.batch.totalStudents = 70
    /\ addBatchAction.labCapacity = 30
    /\ \E b \in academic.batches :
          b.subBatches = {[id |-> 1, studentCount |-> 30], [id |-> 2, studentCount |-> 30],
                          [id |-> 3, studentCount |-> 10]}

\* C17: a result with success=false carries no timetable, and committing it with
\* completeGeneration leaves the stored timetables (an earlier timetable of the
\* same batch included) and labRotations unchanged: only currentGeneration
\* changes, to hold the failed result.
C17_FailedResultLeavesStoreUnchanged ==
    /\ []((Returned /\ ~result.success)
            => (~result.hasTimetable /\ result.timetable = NoTimetable))
    /\ [][(pc = "done" /\ ~result.success /\ currentGeneration.isGenerating)
            => /\ timetables' = timetables
               /\ labRotations' = labRotations
               /\ currentGeneration' =
                     [isGenerating |-> FALSE, hasResult |-> TRUE, result |-> result]]_vars

\* the store after a failed lab allocation was committed while the timetables
\* of both batches, generated before a LAB subject was deleted, are still there
C17_Witness ==
    /\ pc = "idle"
    /\ currentGeneration.hasResult
    /\ ~currentGeneration.result.success
    /\ \E i \in 1..Len(currentGeneration.result.explanations) :
          /\ currentGeneration.result.explanations[i].level = "ERROR"
          /\ currentGeneration.result.explanations[i].source = "LAB_ALLOCATOR"
    /\ {timetables[i].batchId : i \in 1..Len(timetables)} = {1, 2}

\* the target batch has k scoped lab subjects, each with lab faculty, and a
\* department lab; the twelve (day, slot) pairs are free when step 3 starts
LabAllocationPossible(k) ==
    /\ validateAll(infrastructure, academic).isValid
    /\ \E b \in TargetBatches :
          /\ Cardinality(ScopedLabSubjects(b)) = k
          /\ \A s \in ScopedLabSubjects(b) :
                \E f \in academic.faculty : s.id \in f.assignedLabSubjects
          /\ \E l \in infrastructure.labs : l.departmentId = b.departmentId

\* C18: for a batch with k >= 1 scoped lab subjects that all have lab faculty, a
\* department lab and max(k, 2) free (day, slot) pairs, the lab allocation
\* succeeds and places exactly max(k, MIN_LAB_SESSIONS_PER_WEEK) sessions, the
\* subjects taken in turn by index modulo k; a single lab subject gets two
\* sessions.
C18_MaxOfSubjectsAndMinimumSessions ==
    \A k \in 1..12 :
        (pc \notin {"step1", "step2", "step3"} /\ LabAllocationPossible(k))
        => /\ returnedAt # 3
           /\ Cardinality(LabSessionsOf(allEntries)) = Max(k, MIN_LAB_SESSIONS_PER_WEEK)
           /\ {allEntries[i].subjectId :
                  i \in {j \in 1..Len(allEntries) : allEntries[j].isLabSession}}
                 = {s.id : s \in UNION {ScopedLabSubjects(b) : b \in TargetBatches}}

ReachedStep4 ==
    \/ pc \in {"step4", "step5", "step6", "step7", "step8", "step9", "step10"}
    \/ (pc = "done" /\ returnedAt \in {8, 10})

EntriesOfType(type) ==
    {i \in 1..Len(allEntries) : SubjectTypeOf(allEntries[i].subjectId) = type}

\* C19: in every run that reaches step 4 the target batch holds a lab entry at
\* (Monday, period 3), the first lab session taking Monday slot A; the lowest-id
\* MANDATORY subject of the batch is therefore never placed, and with three or
\* more lab sessions no MANDATORY subject is placed at all.
C19_MondayPeriod3IsAlwaysLab ==
    ReachedStep4 =>
        LET mandatory == ScopedSubjects(academic.subjects, batch, "MANDATORY")
        IN  /\ \E i \in 1..Len(allEntries) :
                  /\ allEntries[i].isLabSession
                  /\ allEntries[i].batchId = batch.id
                  /\ allEntries[i].day = 0
                  /\ allEntries[i].period = 3
                  /\ allEntries[i].labSlot = "A"
            /\ Len(mandatory) > 0 =>
                  \A i \in 1..Len(allEntries) : allEntries[i].subjectId # mandatory[1].id
            /\ Cardinality(LabSessionsOf(allEntries)) >= 3 => EntriesOfType("MANDATORY") = {}

\* a run past step 4 for a batch with two MANDATORY subjects and three or more
\* lab sessions: both mandatory subjects were turned away with a WARNING
C19_Witness ==
    /\ pc = "step5"
    /\ Len(ScopedSubjects(academic.subjects, batch, "MANDATORY")) = 2
    /\ Cardinality(LabSessionsOf(allEntries)) >= 3
    /\ Cardinality({i \in 1..Len(explanations) :
            explanations[i].step = 4 /\ explanations[i].level = "WARNING"}) = 2

\* with two lab sessions only, the second MANDATORY subject is placed on Tuesday
C19_WitnessSecondMandatoryPlaced ==
    /\ pc = "step5"
    /\ Cardinality(LabSessionsOf(allEntries)) = 2
    /\ EntriesOfType("MANDATORY") # {}

\* index of the first record of the latest run in a rotation list, 0 if none
LastRunStart(rotations) ==
    LET starts == {i \in 1..Len(rotations) :
                      rotations[i].subBatchId = 1 /\ rotations[i].sessionNumber = 0}
    IN  IF starts = {} THEN 0 ELSE CHOOSE i \in starts : \A j \in starts : j <= i

\* labs a sub-batch was given in the run immediately before the current one
PrecedingRunLabs(subBatchId) ==
    LET from == LastRunStart(existingRotations)
    IN  IF from = 0 THEN {}
        ELSE {existingRotations[i].labId :
                i \in {j \in from..Len(existingRotations) :
                          existingRotations[j].subBatchId = subBatchId}}

\* C20: across consecutive lab allocations for the same split batch with two or
\* more department labs, each run being passed the prior records followed by
\* the records of the runs before it, the lab a sub-batch gets in a run is the
\* lab after (index + 1 modulo lab count) the one it had in the immediately
\* preceding run, so it never has the same lab in two consecutive runs.
C20_RotationAdvancesEveryRun ==
    pc \in {"step4", "step5", "step6", "step7", "step8", "step9", "step10", "done"} =>
        LET deptLabs == SortById({l \in infrastructure.labs :
                                     l.departmentId = batch.departmentId})
        IN  \A i \in (Len(existingRotations) + 1)..Len(allRotations) :
                \A prev \in PrecedingRunLabs(allRotations[i].subBatchId) :
                    /\ allRotations[i].labId # prev
                    /\ LabFindIndex(deptLabs, allRotations[i].labId)
                          = (LabFindIndex(deptLabs, prev) + 1) % Len(deptLabs)

\* the rotation records the current run added to the prior list
NewRotations == SubSeq(allRotations, Len(existingRotations) + 1, Len(allRotations))

\* C21: within one lab allocation for a split batch with two or more department
\* labs, a sub-batch is not bound to the same lab in two consecutive sessions:
\* the rotation recorded for session s counts when the lab of session s+1 is
\* chosen.
C21_RotationAdvancesEverySession ==
    (pc \in {"step4", "step5", "step6", "step7", "step8", "step9", "step10", "done"}
     /\ Cardinality({l \in infrastructure.labs : l.departmentId = batch.departmentId}) >= 2)
    => \A i, j \in 1..Len(NewRotations) :
          (/\ NewRotations[i].subBatchId = NewRotations[j].subBatchId
           /\ NewRotations[j].sessionNumber = NewRotations[i].sessionNumber + 1)
          => NewRotations[j].labId # NewRotations[i].labId

\* scoped lab subjects of the batch without lab faculty
UnstaffedLabSubjects ==
    {s \in ScopedLabSubjects(batch) :
        ~\E f \in academic.faculty : s.id \in f.assignedLabSubjects}

LabSessionsAllocated ==
    {<<allEntries[i].day, allEntries[i].labSlot>> :
        i \in {j \in 1..Len(allEntries) : allEntries[j].isLabSession}}

\* C22: when the allocator meets a scoped lab subject without lab faculty it
\* emits one ERROR for that subject, skips it and still allocates a session for
\* each remaining lab subject; the (day, slot) pairs are not used up by the
\* skipped subject.
C22_UnstaffedSubjectIsSkippedOnce ==
    (pc = "allocated" /\ UnstaffedLabSubjects # {})
    => /\ \A u \in UnstaffedLabSubjects :
             Cardinality({i \in 1..Len(result.explanations) :
                 /\ result.explanations[i].level = "ERROR"
                 /\ result.explanations[i].relatedEntityId = u.id}) = 1
       /\ \A s \in ScopedLabSubjects(batch) \ UnstaffedLabSubjects :
             \E i \in 1..Len(allEntries) :
                 allEntries[i].isLabSession /\ allEntries[i].subjectId = s.id

\* number of entries the run holds for a subject
EntriesOfSubject(id) ==
    Cardinality({i \in 1..Len(allEntries) : allEntries[i].subjectId = id})

\* an explanation of one of the levels, of the step, about the entity
Reported(levels, step, id) ==
    \E i \in 1..Len(explanations) :
        /\ explanations[i].level \in levels
        /\ explanations[i].step = step
        /\ explanations[i].relatedEntityId = id

ScopedOfType(type) ==
    {s \in academic.subjects : /\ s.type = type
                               /\ s.departmentId = batch.departmentId
                               /\ s.semester = batch.semester}

\* C23: after step 6 every scoped MANDATORY or OPEN_ELECTIVE subject without an
\* entry and every scoped THEORY subject with fewer entries than periodsPerWeek
\* has a WARNING or ERROR of its step carrying its id, and every fully placed
\* THEORY subject has an INFO of step 5.
C23_EveryShortfallReported ==
    pc = "step7"
    => /\ \A s \in ScopedOfType("MANDATORY") :
             EntriesOfSubject(s.id) = 0 => Reported({"WARNING", "ERROR"}, 4, s.id)
       /\ \A s \in ScopedOfType("OPEN_ELECTIVE") :
             EntriesOfSubject(s.id) = 0 => Reported({"WARNING", "ERROR"}, 6, s.id)
       /\ \A s \in ScopedOfType("THEORY") :
             IF EntriesOfSubject(s.id) < s.periodsPerWeek
             THEN Reported({"WARNING", "ERROR"}, 5, s.id)
             ELSE Reported({"INFO"}, 5, s.id)

TheoryEntriesOf(id) == {i \in 1..Len(allEntries) : allEntries[i].subjectId = id}

\* the lowest id among the faculty assigned to a theory subject, NoId if none
LowestFacultyOf(id) ==
    LET ids == {f.id : f \in {x \in academic.faculty : id \in x.assignedTheorySubjects}}
    IN  IF ids = {} THEN NoId ELSE CHOOSE x \in ids : \A y \in ids : x <= y

\* the lowest id among the department classrooms that hold the whole batch
LowestAdequateClassroom ==
    LET ids == {r.id : r \in {x \in infrastructure.classrooms :
                                 /\ x.departmentId = batch.departmentId
                                 /\ x.capacity >= batch.totalStudents}}
    IN  IF ids = {} THEN NoId ELSE CHOOSE x \in ids : \A y \in ids : x <= y

\* C24: right after step 5 every scoped THEORY subject has at most periodsPerWeek
\* entries, all in periods {2,4,5,6,7} on working days, all with the lowest-id
\* assigned faculty and the lowest-id adequate department classroom, and no
\* earlier entry of the run shares the slot with the batch, that faculty or
\* that classroom.
C24_TheoryEntriesAreWellPlaced ==
    pc = "step6"
    => \A s \in ScopedOfType("THEORY") :
          /\ Cardinality(TheoryEntriesOf(s.id)) <= s.periodsPerWeek
          /\ \A i \in TheoryEntriesOf(s.id) :
                /\ allEntries[i].period \in {2, 4, 5, 6, 7}
                /\ allEntries[i].day \in 0..5
                /\ allEntries[i].facultyId = LowestFacultyOf(s.id)
                /\ allEntries[i].roomId = LowestAdequateClassroom
                /\ \A j \in 1..(i - 1) :
                      SameSlot(allEntries[i], allEntries[j])
                      => /\ allEntries[j].batchId # allEntries[i].batchId
                         /\ allEntries[j].facultyId # allEntries[i].facultyId
                         /\ allEntries[j].roomId # allEntries[i].roomId

\* a run placed two theory subjects next to six or more lab sessions, the
\* classroom being the second of three
C24_Witness ==
    /\ pc = "step6"
    /\ Cardinality(LabSessionsAllocated) >= 6
    /\ Cardinality(infrastructure.classrooms) = 3
    /\ \A s \in ScopedOfType("THEORY") : TheoryEntriesOf(s.id) # {}
    /\ Cardinality(ScopedOfType("THEORY")) = 2

\* C25: a THEORY subject reported as under-placed in step 5 leaves no (day,
\* period) of working days x {2,4,5,6,7} free at once for the batch, the
\* subject's faculty and its classroom.
C25_UnderPlacedMeansNoUsableSlot ==
    pc = "step6"
    => \A s \in ScopedOfType("THEORY") :
          Reported({"WARNING"}, 5, s.id)
          => ~\E day \in 0..5, period \in {2, 4, 5, 6, 7} :
                /\ isSlotAvailable(allEntries, batch.id, day, period)
                /\ isFacultyAvailable(allEntries, LowestFacultyOf(s.id), day, period)
                /\ isRoomAvailable(allEntries, LowestAdequateClassroom, day, period)

FixedSlotSubjectsHavePeriods ==
    \A s \in academic.subjects :
        s.type \in {"MANDATORY", "OPEN_ELECTIVE"} => s.periodsPerWeek >= 1

\* C26: in a run that passed validation and reached step 8, with every MANDATORY
\* and OPEN_ELECTIVE subject of periodsPerWeek >= 1, no faculty's counts from the
\* placed entries exceed the totals of its assignments, and hasWorkloadViolation
\* is false.
C26_Step8NeverAborts ==
    (pc = "step8" /\ FixedSlotSubjectsHavePeriods)
    => LET stats == calculateWorkload(academic.faculty, academic.subjects, allEntries)
       IN  /\ \A i \in 1..Len(stats) :
                 \E f \in academic.faculty :
                    /\ f.id = stats[i].facultyId
                    /\ stats[i].theoryPeriods
                          <= SumPeriods(f.assignedTheorySubjects, academic.subjects)
                    /\ stats[i].labSessions <= Cardinality(f.assignedLabSubjects)
           /\ ~hasWorkloadViolation(academic.faculty, academic.subjects, allEntries)

\* a run at step 8 in which one faculty teaches four or more placed theory
\* periods and one teaches two lab sessions
C26_Witness ==
    /\ pc = "step8"
    /\ FixedSlotSubjectsHavePeriods
    /\ LET stats == calculateWorkload(academic.faculty, academic.subjects, allEntries)
       IN  /\ \E i \in 1..Len(stats) : stats[i].theoryPeriods >= 4
           /\ \E i \in 1..Len(stats) : stats[i].labSessions = 2

\* the lab sessions a faculty holds, one per first period of a lab slot and day
SessionsHeldBy(id) ==
    {<<allEntries[i].day, allEntries[i].period>> :
        i \in {j \in 1..Len(allEntries) : /\ allEntries[j].facultyId = id
                                          /\ allEntries[j].isLabSession
                                          /\ allEntries[j].period \in {2, 5}}}

LabOverloadReported(id) ==
    \E i \in 1..Len(explanations) :
        /\ explanations[i].level = "ERROR"
        /\ explanations[i].source = "WORKLOAD"
        /\ explanations[i].relatedEntityId = id
        /\ explanations[i].message = "lab sessions exceed limit"

\* C27: the workload calculator counts each lab session of a faculty once,
\* however many entries it has, and reports a lab overload exactly when the count
\* is strictly above the designation limit: from 2 sessions on for a PROFESSOR
\* (limit 1) and an ASSOCIATE_PROFESSOR (limit 1.5), from 3 on for an
\* ASSISTANT_PROFESSOR (limit 2); 1 session never overloads.
C27_SessionsCountOnceAndCompareStrictly ==
    pc = "checked"
    => LET stats == calculateWorkload(academic.faculty, academic.subjects, allEntries)
       IN  \A i \in 1..Len(stats) :
              LET sessions == Cardinality(SessionsHeldBy(stats[i].facultyId))
              IN  /\ stats[i].labSessions = sessions
                  /\ stats[i].isOverloaded = LabOverloadReported(stats[i].facultyId)
                  /\ LabOverloadReported(stats[i].facultyId)
                        <=> IF stats[i].designation = "ASSISTANT_PROFESSOR"
                            THEN sessions >= 3 ELSE sessions >= 2

\* an associate professor holding exactly two lab sessions was reported, and the
\* sessions have three entries each
C27_Witness ==
    /\ pc = "checked"
    /\ \E f \in academic.faculty :
          /\ f.designation = "ASSOCIATE_PROFESSOR"
          /\ Cardinality(SessionsHeldBy(f.id)) = 2
          /\ Cardinality({j \in 1..Len(allEntries) :
                 allEntries[j].facultyId = f.id /\ allEntries[j].isLabSession}) = 6
          /\ LabOverloadReported(f.id)

\* position of the call in the pipeline; the return statement is the last one
PipelinePosition(p) ==
    CASE p = "step1" -> 1 [] p = "step2" -> 2 [] p = "step3" -> 3 [] p = "step4" -> 4
      [] p = "step5" -> 5 [] p = "step6" -> 6 [] p = "step7" -> 7 [] p = "step8" -> 8
      [] p = "step9" -> 9 [] p = "step10" -> 10 [] p = "done" -> 11

\* C28: every step of a call moves it forward towards its return statement, so a
\* call takes at most ten steps; the lab loop makes at most 12 iterations, each of
\* which takes a (day, slot) pair no earlier iteration took, and no theory
\* subject is scanned for more than 60 attempts.
C28_LoopsAreBoundedAndRunReturns ==
    /\ [](/\ loopStats.labIterations <= 12
          /\ loopStats.labIterations = Cardinality(loopStats.labPairs)
          /\ \A i \in 1..Len(loopStats.theoryAttempts) : loopStats.theoryAttempts[i] <= 60)
    /\ [][PipelinePosition(pc') > PipelinePosition(pc)]_vars

\* a returned run whose lab loop took all 12 pairs of the week and whose theory
\* scan used its whole budget on one subject
C28_Witness ==
    /\ pc = "done"
    /\ loopStats.labIterations = 12
    /\ \E i \in 1..Len(loopStats.theoryAttempts) : loopStats.theoryAttempts[i] = 60

IsPrefix(s, t) == Len(s) <= Len(t) /\ SubSeq(t, 1, Len(s)) = s

StepsNeverDecrease(expls) ==
    \A i, j \in 1..Len(expls) : i < j => expls[i].step <= expls[j].step

\* C29: the explanation list of a run only grows by appending, and in the list
\* of every result, successful or failed, no explanation of an earlier step
\* follows one of a later step.
C29_ExplanationsInPipelineOrder ==
    /\ [](/\ StepsNeverDecrease(explanations)
          /\ Returned => (result.explanations = explanations
                          /\ StepsNeverDecrease(result.explanations)))
    /\ [][IsPrefix(explanations, explanations')]_vars

\* a failed result whose list holds a step-1 ERROR of the validator followed by
\* a step-8 ERROR of its workload check
C29_Witness ==
    /\ Returned
    /\ ~result.success
    /\ \E i, j \in 1..Len(result.explanations) :
          /\ i < j
          /\ result.explanations[i].step = 1 /\ result.explanations[i].level = "ERROR"
          /\ result.explanations[j].step = 8 /\ result.explanations[j].level = "ERROR"

\* a successful result whose list runs from step 1 to step 10
C29_WitnessSuccess ==
    /\ Returned
    /\ result.success
    /\ \A n \in 1..10 : \E i \in 1..Len(result.explanations) : result.explanations[i].step = n

StoredFor(tts, b) == {tts[i] : i \in {j \in 1..Len(tts) : tts[j].batchId = b}}

\* C30: the store holds at most one timetable per batch, ordered by batchId; a
\* step changes the timetable of at most one batch, a successful
\* completeGeneration leaves exactly its timetable for its batch, and a
\* timetable that changes is either removed or replaced by a single new one.
C30_OneTimetablePerBatchInOrder ==
    /\ [](/\ \A i, j \in 1..Len(timetables) :
                i < j => timetables[i].batchId < timetables[j].batchId)
    /\ [][/\ Cardinality({b \in StoreBatchIds :
                 StoredFor(timetables', b) # StoredFor(timetables, b)}) <= 1
          /\ \A b \in StoreBatchIds :
                StoredFor(timetables', b) # StoredFor(timetables, b)
                => \/ StoredFor(timetables', b) = {}
                   \/ \E t \in StoredFor(timetables', b) :
                         /\ StoredFor(timetables', b) = {t}
                         /\ t \notin StoredFor(timetables, b)
          /\ (currentGeneration' # currentGeneration
              /\ currentGeneration'.result.success
              /\ currentGeneration'.result.hasTimetable)
             => StoredFor(timetables', currentGeneration'.result.timetable.batchId)
                   = {currentGeneration'.result.timetable}]_vars

\* three batches have a timetable, and the one of the middle batch is no longer
\* the one the last successful completeGeneration stored for that batch
C30_Witness ==
    /\ Len(timetables) = 3
    /\ currentGeneration.hasResult
    /\ currentGeneration.result.success
    /\ currentGeneration.result.hasTimetable
    /\ currentGeneration.result.timetable.batchId = timetables[2].batchId
    /\ currentGeneration.result.timetable # timetables[2]

====
